---- MODULE Spec2Model ----
(***************************************************************************)
(* A model of the `drift` package tooling of lang2 (publish / fetch /      *)
(* vendor over directory repositories, a project cache, a lockfile and a   *)
(* vendored tree).  The state is the part of the file system the tools     *)
(* read and write; every action is one whole invocation of a tool, or one  *)
(* edit of a configuration file by the user.                               *)
(***************************************************************************)
EXTENDS Integers, Sequences, FiniteSets, TLC

VARIABLES
    repoFiles,    \* [Repos -> [filename -> package bytes]]   <repo>/<name>.dmp
    repoSigs,     \* [Repos -> [filename -> sidecar bytes]]   <repo>/<name>.dmp.sig
    repoIndex,    \* [Repos -> [package_id -> entry]]         <repo>/index.json
    sourcesFile,  \* sequence of DirSource                    drift-sources.json
    lockFile,     \* [exists, packages]                       drift.lock.json
    cacheFiles,   \* [filename -> package bytes]              <cache>/pkgs/<name>
    cacheSigs,    \* [filename -> sidecar bytes]              <cache>/pkgs/<name>.sig
    cacheIndex,   \* [package_id -> entry]                    <cache>/index.json
    vendorFiles,  \* [filename -> package bytes]              <vendor>/<name>
    vendorSigs,   \* [filename -> sidecar bytes]              <vendor>/<name>.sig
    last,         \* what the last invocation was and how it ended
    npub,         \* publish invocations so far, counted up to MaxPublish
    mirFn,        \* the MIR function handed to verify_function
    mirVerdict,   \* how verify_function ended on it
    throwArgs,    \* the arguments of run_throw_checks
    throwVerdict, \* how run_throw_checks ended on them
    stageFn,      \* the MIR function handed to MirToSSA.run / LLVM lowering
    stageResult,  \* what that stage returned or raised
    program,      \* the functions of the program handed to lang's Checker
    checkResult,  \* how Checker.check ended on it
    loadedPkg,    \* the loaded package handed to _validate_package_interfaces
    pkgResult,    \* how the validation ended on it
    signFiles,    \* the package file and its .sig sidecar, as drift sign sees them
    signLast,     \* the last drift sign invocation and how it ended
    trustStore,   \* the trust store file drift/trust.json
    trustLast,    \* the last drift trust add-key invocation and how it ended
    outFiles,     \* index.json and the lockfile as bytes on disk, and the writer's position in write_bytes
    readSeen      \* what a concurrent reader last read from one of them

vars == <<repoFiles, repoSigs, repoIndex, sourcesFile, lockFile,
          cacheFiles, cacheSigs, cacheIndex, vendorFiles, vendorSigs, last, npub,
          mirFn, mirVerdict, throwArgs, throwVerdict,
          stageFn, stageResult, program, checkResult,
          loadedPkg, pkgResult,
          signFiles, signLast,
          trustStore, trustLast,
          outFiles, readSeen>>

repoVars == <<repoFiles, repoSigs, repoIndex>>
cacheVars == <<cacheFiles, cacheSigs, cacheIndex>>
vendorVars == <<vendorFiles, vendorSigs>>
toolVars == <<repoVars, sourcesFile, lockFile, cacheVars, vendorVars, last, npub>>
mirVars == <<mirFn, mirVerdict>>
throwVars == <<throwArgs, throwVerdict>>
stageVars == <<stageFn, stageResult>>
checkVars == <<program, checkResult>>
pkgVars == <<loadedPkg, pkgResult>>
signVars == <<signFiles, signLast>>
trustVars == <<trustStore, trustLast>>
saveVars == <<outFiles, readSeen>>
laterVars == <<stageVars, checkVars, pkgVars, signVars, trustVars, saveVars>>
compilerVars == <<mirVars, throwVars, laterVars>>

(***************************************************************************)
(* Values                                                                  *)
(***************************************************************************)

\* Python's None / a JSON null / a key that is absent from a JSON object.
None == "<None>"

\* isinstance(v, str)
IsStr(v) == v # None

\* The truth value Python gives a str-or-None (`if entry.source_id:`).
Truthy(v) == v # None /\ v # ""

\* The function with the empty domain: an empty dict, an empty directory.
Empty == [k \in {} |-> None]

\* dict.get(key, default)
Get(d, k, default) == IF k \in DOMAIN d THEN d[k] ELSE default

\* d with d[k] = v (a dict assignment, a file written or overwritten).
Put(d, k, v) == [x \in (DOMAIN d) \cup {k} |-> IF x = k THEN v ELSE d[x]]

\* The strings that are compared with `<` (sorted(), min()), in the order
\* Python's str comparison gives them (code point order).
Collation == <<"", "a", "b", "lib", "lib-x", "unknown">>

Rank(s) == CHOOSE i \in 1..Len(Collation) : Collation[i] = s

StrLess(s, t) == Rank(s) < Rank(t)

\* sorted(S) for a set of strings, as a sequence.
RECURSIVE SortedStrings(_)
SortedStrings(S) ==
    IF S = {} THEN <<>>
    ELSE LET m == CHOOSE x \in S : \A y \in S : x = y \/ StrLess(x, y)
         IN  <<m>> \o SortedStrings(S \ {m})

(***************************************************************************)
(* dmir_pkg_v0: the package container                                      *)
(***************************************************************************)

MAGIC == "DMIRPKG"

\* hashlib.sha256(data).hexdigest(): a collision-free digest of the bytes.
sha256_hex(data) == ToString(data)

\* f"sha256:{sha256_hex(data)}"
Sha256Of(data) == "sha256:" \o sha256_hex(data)

\* read_identity_v0: the identity the manifest declares, or the error
\* PackageFormatError carries.
read_identity_v0(data) ==
    IF data.magic # MAGIC THEN [err |-> "bad package magic"]
    ELSE IF ~Truthy(data.manifest.package_id)
         THEN [err |-> "package manifest missing package_id"]
    ELSE IF ~Truthy(data.manifest.package_version)
         THEN [err |-> "package manifest missing package_version"]
    ELSE IF ~Truthy(data.manifest.target)
         THEN [err |-> "package manifest missing target"]
    ELSE [err |-> "",
          package_id |-> data.manifest.package_id,
          package_version |-> data.manifest.package_version,
          target |-> data.manifest.target,
          manifest |-> data.manifest]

(***************************************************************************)
(* The packages driftc has built in the project (inputs of publish).       *)
(***************************************************************************)

Pkg(pid, ver, tgt, body) ==
    [magic |-> MAGIC,
     manifest |-> [package_id |-> pid, package_version |-> ver, target |-> tgt,
                   modules |-> {pid}],
     body |-> body]

\* A sidecar: the package digest it signs and the kids of its signatures.
Sidecar(pkg, kids) == [package_sha256 |-> Sha256Of(pkg), kids |-> kids]

\* path -> bytes of the package files that exist.  a.dmp and b.dmp declare
\* the same identity with different code; c.dmp is another version of lib;
\* d.dmp is another package; e.dmp is lib built for another target.
BuiltPkgs ==
    [p \in {"a.dmp", "b.dmp", "c.dmp", "d.dmp", "e.dmp"} |->
        CASE p = "a.dmp" -> Pkg("lib", "1", "t", 1)
          [] p = "b.dmp" -> Pkg("lib", "1", "t", 2)
          [] p = "c.dmp" -> Pkg("lib", "x-1", "t", 1)
          [] p = "d.dmp" -> Pkg("lib-x", "1", "t", 1)
          [] p = "e.dmp" -> Pkg("lib", "1", "u", 1)]

\* path -> bytes of the sidecars that exist (only a.dmp has been signed).
BuiltSigs ==
    [p \in {"a.dmp"} |-> Sidecar(BuiltPkgs[p], {"k1"})]

\* The paths a publish command line may name; nope.dmp does not exist.
PkgPaths == DOMAIN BuiltPkgs \cup {"nope.dmp"}

(***************************************************************************)
(* index_v0: the repository / cache index                                  *)
(***************************************************************************)

IndexEntry(pid, ver, tgt, sha, filename, signers, unsigned, source_id, path) ==
    [package_id |-> pid, package_version |-> ver, target |-> tgt,
     sha256 |-> sha, filename |-> filename, signers |-> signers,
     unsigned |-> unsigned, source_id |-> source_id, path |-> path]

\* The object upsert_entry stores for an entry: source_id and path only
\* when they are set.
stored_entry(entry) ==
    LET base == [package_version |-> entry.package_version,
                 target |-> entry.target,
                 sha256 |-> entry.sha256,
                 filename |-> entry.filename,
                 signers |-> entry.signers,
                 unsigned |-> entry.unsigned]
        withSrc == IF Truthy(entry.source_id)
                   THEN Put(base, "source_id", entry.source_id) ELSE base
    IN  IF Truthy(entry.path) THEN Put(withSrc, "path", entry.path) ELSE withSrc

\* upsert_entry that compares version and target only.
upsert_entry_ignoring_sha256(pkgs, entry, force) ==
    LET has == entry.package_id \in DOMAIN pkgs
        existing == pkgs[entry.package_id]
    IN  IF has /\ ~force
           /\ (Get(existing, "package_version", "") # entry.package_version
               \/ Get(existing, "target", "") # entry.target)
        THEN [err |-> "already published as", pkgs |-> pkgs]
        ELSE [err |-> "", pkgs |-> Put(pkgs, entry.package_id, stored_entry(entry))]

\* upsert_entry(index_obj, entry=..., force=...): the packages map after the
\* call, or the error it raises (the map is then as before).
upsert_entry(pkgs, entry, force) ==
    LET has == entry.package_id \in DOMAIN pkgs
        existing == pkgs[entry.package_id]
        prev_ver == Get(existing, "package_version", "")
        prev_target == Get(existing, "target", "")
        prev_sha == Get(existing, "sha256", "")
    IN  IF has /\ ~force
           /\ (prev_ver # entry.package_version \/ prev_target # entry.target)
        THEN [err |-> "already published as", pkgs |-> pkgs]
        ELSE IF has /\ ~force
                /\ prev_sha # "" /\ prev_sha # entry.sha256
        THEN [err |-> "already published with different sha256", pkgs |-> pkgs]
        ELSE [err |-> "", pkgs |-> Put(pkgs, entry.package_id, stored_entry(entry))]

(***************************************************************************)
(* publish                                                                 *)
(***************************************************************************)

\* signers = [s.kid for s in sf.signatures], for a sidecar as sign_package_v0
\* writes it; the parse of the sidecar file is not modelled.
sidecar_signers(sig) == sig.kids

\* f"{package_id}-{package_version}-{target}.dmp"
base_name(ident) ==
    ident.package_id \o "-" \o ident.package_version \o "-" \o ident.target \o ".dmp"

\* One turn of publish_packages_v0's loop over package_paths: st is the
\* destination directory and the index object in memory.
publish_one(st, pkg_path, force, allow_unsigned) ==
    IF pkg_path \notin DOMAIN BuiltPkgs
    THEN [st EXCEPT !.err = "package not found"]
    ELSE
    LET pkg_bytes == BuiltPkgs[pkg_path]
        ident == read_identity_v0(pkg_bytes)
        pkg_sha == Sha256Of(pkg_bytes)
        has_sidecar == pkg_path \in DOMAIN BuiltSigs
        signers == IF has_sidecar THEN sidecar_signers(BuiltSigs[pkg_path]) ELSE {}
        out_name == base_name(ident)
        entry == IndexEntry(ident.package_id, ident.package_version, ident.target,
                            pkg_sha, out_name, signers, ~has_sidecar, None, None)
        up == upsert_entry(st.index_obj, entry, force)
    IN  IF ident.err # "" THEN [st EXCEPT !.err = ident.err]
        ELSE IF ~has_sidecar /\ ~allow_unsigned
        THEN [st EXCEPT !.err = "missing sidecar for package"]
        ELSE [files |-> Put(st.files, out_name, pkg_bytes),
              sigs |-> IF has_sidecar
                       THEN Put(st.sigs, out_name, BuiltSigs[pkg_path]) ELSE st.sigs,
              index_obj |-> up.pkgs,
              err |-> up.err]

RECURSIVE publish_loop(_, _, _, _)
publish_loop(st, paths, force, allow_unsigned) ==
    IF paths = <<>> \/ st.err # "" THEN st
    ELSE publish_loop(publish_one(st, Head(paths), force, allow_unsigned),
                      Tail(paths), force, allow_unsigned)

\* publish_packages_v0(PublishOptions(dest_dir, package_paths, force,
\* allow_unsigned)) on a destination directory holding files, sigs and
\* index.json: the directory afterwards and the error raised ("" for none).
publish_packages_v0(files, sigs, index, package_paths, force, allow_unsigned) ==
    IF package_paths = <<>>
    THEN [files |-> files, sigs |-> sigs, index |-> index, err |-> "no packages provided"]
    ELSE LET st == publish_loop([files |-> files, sigs |-> sigs,
                                 index_obj |-> index, err |-> ""],
                                package_paths, force, allow_unsigned)
         IN  [files |-> st.files, sigs |-> st.sigs,
              \* save_index runs only when no turn of the loop raised
              index |-> IF st.err = "" THEN st.index_obj ELSE index,
              err |-> st.err]

(***************************************************************************)
(* sources_v0, lock_v0                                                     *)
(***************************************************************************)

DirSource(source_id, priority, path) ==
    [source_id |-> source_id, priority |-> priority, path |-> path]

LockEntry(ver, tgt, pkg_sha256, sig_sha256, sig_kids, modules, source_id, path) ==
    [version |-> ver, target |-> tgt, pkg_sha256 |-> pkg_sha256,
     sig_sha256 |-> sig_sha256, sig_kids |-> sig_kids, modules |-> modules,
     source_id |-> source_id, path |-> path]

\* isinstance(v, str) and v.startswith("sha256:"): the digests of the model
\* are the strings that start so.
IsSha256Str(v) == \E p \in DOMAIN BuiltPkgs : v = Sha256Of(BuiltPkgs[p])

\* load_lock's check of one entry, taking the placeholder 'unknown' for a
\* source id.
load_lock_entry_accepting_unknown(raw) ==
    IF ~(IsStr(raw.version) /\ raw.version # "") THEN "is missing version"
    ELSE IF ~(IsStr(raw.target) /\ raw.target # "") THEN "is missing target"
    ELSE IF ~IsSha256Str(raw.pkg_sha256) THEN "is missing pkg_sha256"
    ELSE IF ~IsStr(raw.source_id) \/ raw.source_id = "" THEN "is missing source_id"
    ELSE IF ~(IsStr(raw.path) /\ raw.path # "") THEN "is missing path"
    ELSE ""

\* The check load_lock makes of one entry: the error it raises, "" for none.
load_lock_entry(raw) ==
    IF ~(IsStr(raw.version) /\ raw.version # "") THEN "is missing version"
    ELSE IF ~(IsStr(raw.target) /\ raw.target # "") THEN "is missing target"
    ELSE IF ~IsSha256Str(raw.pkg_sha256) THEN "is missing pkg_sha256"
    ELSE IF ~IsStr(raw.source_id) \/ raw.source_id = "" \/ raw.source_id = "unknown"
         THEN "is missing source_id"
    ELSE IF ~(IsStr(raw.path) /\ raw.path # "") THEN "is missing path"
    ELSE ""

RECURSIVE load_lock_loop(_, _)
load_lock_loop(pkgs, ids) ==
    IF ids = <<>> THEN ""
    ELSE LET e == load_lock_entry(pkgs[Head(ids)])
         IN  IF e # "" THEN e ELSE load_lock_loop(pkgs, Tail(ids))

\* load_lock(path): the error it raises for the packages object of the
\* lockfile, "" when it returns the lock.
load_lock(pkgs) == load_lock_loop(pkgs, SortedStrings(DOMAIN pkgs))

(***************************************************************************)
(* fetch                                                                   *)
(* lock_pkgs is the lockfile, [exists, packages]: `lock_pkgs is None` is   *)
(* ~lock_pkgs.exists.                                                      *)
(***************************************************************************)

\* The sort key (s.priority, s.source_id), compared as Python compares tuples.
KeyLess(x, y) ==
    \/ x.priority < y.priority
    \/ x.priority = y.priority /\ StrLess(x.source_id, y.source_id)

\* sorted(sources.sources, key=lambda s: (s.priority, s.source_id))
sorted_sources(sources) == SortSeq(sources, KeyLess)

\* `if s.source_id in sources_by_id: raise`
has_duplicate_source_id(sources) ==
    \E i, j \in 1..Len(sources) : i # j /\ sources[i].source_id = sources[j].source_id

\* The candidate of the highest (priority, source_id) instead of the lowest.
max_candidate(cand_list) ==
    LET i == CHOOSE i \in 1..Len(cand_list) :
                 \A j \in 1..Len(cand_list) : j = i \/ KeyLess(cand_list[j], cand_list[i])
    IN  cand_list[i]

\* min(cand_list, key=lambda c: (c.priority, c.source_id)): the first minimum.
min_candidate(cand_list) ==
    LET i == CHOOSE i \in 1..Len(cand_list) :
                 /\ \A j \in 1..Len(cand_list) : ~KeyLess(cand_list[j], cand_list[i])
                 /\ \A j \in 1..(i - 1) : KeyLess(cand_list[i], cand_list[j])
    IN  cand_list[i]

\* The entries of one source index, in the order of the index, added to the
\* candidates: acc is [cands, order, err]; order is the order in which the
\* package ids were first inserted into `candidates`.
RECURSIVE collect_index(_, _, _, _, _)
collect_index(acc, src, pkgs, ids, lock_pkgs) ==
    IF ids = <<>> \/ acc.err # "" THEN acc
    ELSE
    LET package_id == Head(ids)
        raw == pkgs[package_id]
        entry == IndexEntry(package_id,
                            Get(raw, "package_version", ""), Get(raw, "target", ""),
                            Get(raw, "sha256", ""), Get(raw, "filename", ""),
                            Get(raw, "signers", {}), Get(raw, "unsigned", FALSE),
                            src.source_id, Get(raw, "filename", ""))
        cand == [priority |-> src.priority, source_id |-> src.source_id,
                 repo |-> src.path, entry |-> entry]
        next ==
            IF lock_pkgs.exists /\ package_id \notin DOMAIN lock_pkgs.packages THEN acc
            ELSE IF entry.package_version = "" \/ entry.target = ""
                    \/ entry.filename = "" \/ entry.sha256 = ""
            THEN [acc EXCEPT !.err = "invalid index entry"]
            ELSE [cands |-> Put(acc.cands, package_id,
                                Append(Get(acc.cands, package_id, <<>>), cand)),
                  order |-> IF package_id \in DOMAIN acc.cands THEN acc.order
                            ELSE Append(acc.order, package_id),
                  err |-> ""]
    IN  collect_index(next, src, pkgs, Tail(ids), lock_pkgs)

\* `for src in sorted_sources:` reading each source's index.json.
RECURSIVE collect_candidates(_, _, _, _)
collect_candidates(acc, srcs, index, lock_pkgs) ==
    IF srcs = <<>> \/ acc.err # "" THEN acc
    ELSE LET pkgs == index[Head(srcs).path]
         IN  collect_candidates(
                 collect_index(acc, Head(srcs), pkgs, SortedStrings(DOMAIN pkgs), lock_pkgs),
                 Tail(srcs), index, lock_pkgs)

\* Selection that falls back to the lowest (priority, source_id) when the
\* source the lock names is not among the candidates.
select_one_falling_back(cand_list, package_id, lock_pkgs) ==
    IF ~lock_pkgs.exists THEN [err |-> "", cand |-> min_candidate(cand_list)]
    ELSE
    LET want_src == lock_pkgs.packages[package_id].source_id
        want_src_str == IF IsStr(want_src) THEN want_src ELSE ""
        eligible == SelectSeq(cand_list, LAMBDA c : c.source_id = want_src_str)
    IN  IF want_src_str = "" THEN [err |-> "is missing source_id"]
        ELSE IF eligible = <<>> THEN [err |-> "", cand |-> min_candidate(cand_list)]
        ELSE [err |-> "", cand |-> min_candidate(eligible)]

\* One turn of `for package_id, cand_list in candidates.items():`, the
\* candidate selected or the error raised.
select_one(cand_list, package_id, lock_pkgs) ==
    IF ~lock_pkgs.exists THEN [err |-> "", cand |-> min_candidate(cand_list)]
    ELSE
    LET want_src == lock_pkgs.packages[package_id].source_id
        want_src_str == IF IsStr(want_src) THEN want_src ELSE ""
        eligible == SelectSeq(cand_list, LAMBDA c : c.source_id = want_src_str)
    IN  IF want_src_str = "" THEN [err |-> "is missing source_id"]
        ELSE IF want_src_str = "unknown"
        THEN IF Len(cand_list) # 1
             THEN [err |-> "uses source_id 'unknown' but multiple sources provide it"]
             ELSE [err |-> "", cand |-> cand_list[1]]
        ELSE IF eligible = <<>> THEN [err |-> "lock pins package_id to unknown source id"]
        ELSE [err |-> "", cand |-> min_candidate(eligible)]

RECURSIVE select_loop(_, _, _, _)
select_loop(acc, cands, order, lock_pkgs) ==
    IF order = <<>> \/ acc.err # "" THEN acc
    ELSE LET r == select_one(cands[Head(order)], Head(order), lock_pkgs)
         IN  select_loop(
                 IF r.err # "" THEN [acc EXCEPT !.err = r.err]
                 ELSE [acc EXCEPT !.selected = Put(acc.selected, Head(order), r.cand)],
                 cands, Tail(order), lock_pkgs)

\* An identity check that accepts every manifest.
identity_unchecked(ident, entry) == FALSE

\* The manifest identity differs from the index entry.
identity_mismatch(ident, entry) ==
    \/ ident.package_id # entry.package_id
    \/ ident.package_version # entry.package_version
    \/ ident.target # entry.target

\* A guardrail that accepts every copy.
sha256_unchecked(entry, data) == FALSE

\* Guardrail: the copied bytes do not match the index sha256.
sha256_mismatch(entry, data) == entry.sha256 # Sha256Of(data)

\* One turn of `for package_id in sorted(selected.keys()):`.  st is the cache
\* pkgs directory, the index object in memory (merged), the error raised and
\* the copies made so far (package_id -> source and bytes copied).
fetch_one(st, package_id, cand, files, sigs, lock_pkgs, force) ==
    LET entry == cand.entry
        repo == cand.repo
        locked == lock_pkgs.exists
        want == lock_pkgs.packages[package_id]
        pinned_sig == locked /\ IsStr(want.sig_sha256) /\ want.sig_sha256 # ""
        src_pkg == files[repo][entry.filename]
        ident == read_identity_v0(src_pkg)
        has_sig == entry.filename \in DOMAIN sigs[repo]
        copied == [st EXCEPT
                      !.files = Put(st.files, entry.filename, src_pkg),
                      !.fetched = Put(st.fetched, package_id,
                                      [source_id |-> cand.source_id, bytes |-> src_pkg])]
        mirrored == IF has_sig
                    THEN [copied EXCEPT
                             !.sigs = Put(st.sigs, entry.filename, sigs[repo][entry.filename])]
                    ELSE copied
        up == upsert_entry(st.merged, entry, force)
    IN  IF locked /\ (want.version # entry.package_version \/ want.target # entry.target)
        THEN [st EXCEPT !.err = "lock mismatch"]
        ELSE IF locked /\ want.pkg_sha256 # entry.sha256
        THEN [st EXCEPT !.err = "sha256 mismatch vs lock"]
        ELSE IF locked /\ IsStr(want.path) /\ want.path # "" /\ want.path # entry.filename
        THEN [st EXCEPT !.err = "lock path mismatch"]
        ELSE IF entry.filename \notin DOMAIN files[repo]
        THEN [st EXCEPT !.err = "missing package file referenced by index"]
        ELSE IF ident.err # ""
        THEN [st EXCEPT !.err = "invalid package referenced by index"]
        ELSE IF identity_mismatch(ident, entry)
        THEN [st EXCEPT !.err = "package identity mismatch"]
        \* from here on the package file is in the cache
        ELSE IF has_sig /\ pinned_sig
                /\ want.sig_sha256 # Sha256Of(sigs[repo][entry.filename])
        THEN [mirrored EXCEPT !.err = "sig sha256 mismatch for fetched package"]
        ELSE IF ~has_sig /\ pinned_sig
        THEN [mirrored EXCEPT !.err = "missing signature sidecar for locked package"]
        ELSE IF sha256_mismatch(entry, src_pkg)
        THEN [mirrored EXCEPT !.err = "sha256 mismatch for fetched package"]
        ELSE [mirrored EXCEPT !.merged = up.pkgs, !.err = up.err]

RECURSIVE fetch_loop(_, _, _, _, _, _, _)
fetch_loop(st, ids, selected, files, sigs, lock_pkgs, force) ==
    IF ids = <<>> \/ st.err # "" THEN st
    ELSE fetch_loop(fetch_one(st, Head(ids), selected[Head(ids)], files, sigs, lock_pkgs, force),
                    Tail(ids), selected, files, sigs, lock_pkgs, force)

\* The candidates fetch_v0 collects: [cands, order, err].
fetch_candidates(sources, index, lock_pkgs) ==
    collect_candidates([cands |-> Empty, order |-> <<>>, err |-> ""],
                       sorted_sources(sources), index, lock_pkgs)

\* The candidate fetch_v0 selects for each package id: [selected, err].
fetch_selected(sources, index, lock_pkgs) ==
    LET c == fetch_candidates(sources, index, lock_pkgs)
    IN  select_loop([selected |-> Empty, err |-> ""], c.cands, c.order, lock_pkgs)

\* fetch_v0(FetchOptions(sources_path, cache_dir, force, lock_path)): the
\* cache afterwards, the error raised ("" for none) and the copies made.
\* sources is the sources file; files, sigs and index are those of the
\* repositories; cfiles, csigs and cindex are the cache before the call.
fetch_v0(sources, files, sigs, index, lock_pkgs, cfiles, csigs, cindex, force) ==
    LET unchanged == [files |-> cfiles, sigs |-> csigs, index |-> cindex, fetched |-> Empty]
        fail(e) == unchanged @@ [err |-> e]
        lock_err == IF lock_pkgs.exists THEN load_lock(lock_pkgs.packages) ELSE ""
        c == fetch_candidates(sources, index, lock_pkgs)
        sel == fetch_selected(sources, index, lock_pkgs)
        st == fetch_loop([files |-> cfiles, sigs |-> csigs, merged |-> cindex,
                          err |-> "", fetched |-> Empty],
                         SortedStrings(DOMAIN sel.selected), sel.selected,
                         files, sigs, lock_pkgs, force)
        missing == DOMAIN lock_pkgs.packages \ DOMAIN st.merged
    IN  IF lock_err # "" THEN fail(lock_err)
        ELSE IF has_duplicate_source_id(sources) THEN fail("duplicate source id")
        ELSE IF c.err # "" THEN fail(c.err)
        ELSE IF sel.err # "" THEN fail(sel.err)
        ELSE IF st.err # ""
        THEN [files |-> st.files, sigs |-> st.sigs, index |-> cindex,
              fetched |-> st.fetched, err |-> st.err]
        \* save_index(cache_index_path, merged), then the check of the lock
        ELSE [files |-> st.files, sigs |-> st.sigs, index |-> st.merged,
              fetched |-> st.fetched,
              err |-> IF lock_pkgs.exists /\ missing # {}
                      THEN "lock requested packages not found in sources" ELSE ""]

(***************************************************************************)
(* vendor                                                                  *)
(***************************************************************************)

\* `entry.source_id or ""`, `entry.path or entry.filename`
\* A vendor that records no sidecar digest.
sig_sha256_dropped(has_sig, sigs, filename) == None

\* The digest of the vendored sidecar, None when the cache holds none.
sig_sha256_of(has_sig, sigs, filename) ==
    IF has_sig THEN Sha256Of(sigs[filename]) ELSE None

OrElse(v, default) == IF Truthy(v) THEN v ELSE default

\* One turn of `for package_id, raw in pkgs_map.items():`.  st is the vendor
\* directory, out_entries (package_id -> LockEntry) and the error raised.
vendor_one(st, package_id, raw, cfiles, csigs, selected) ==
    IF selected # {} /\ package_id \notin selected THEN st
    ELSE
    LET filename == Get(raw, "filename", "")
        sha256 == Get(raw, "sha256", "")
        source_id == IF Truthy(Get(raw, "source_id", None)) THEN raw.source_id ELSE None
        path == IF Truthy(Get(raw, "path", None)) THEN raw.path ELSE None
        src_pkg == cfiles[filename]
        has_sig == filename \in DOMAIN csigs
        copied == [st EXCEPT
                      !.files = Put(st.files, filename, src_pkg),
                      !.sigs = IF has_sig THEN Put(st.sigs, filename, csigs[filename])
                               ELSE st.sigs]
        pkg_sha == Sha256Of(copied.files[filename])
        sig_sha == sig_sha256_of(has_sig, copied.sigs, filename)
        ident == read_identity_v0(copied.files[filename])
        e == LockEntry(Get(raw, "package_version", ""), Get(raw, "target", ""),
                       pkg_sha, sig_sha, Get(raw, "signers", {}), ident.manifest.modules,
                       OrElse(source_id, ""), OrElse(path, filename))
    IN  IF filename \notin DOMAIN cfiles
        THEN [st EXCEPT !.err = "missing cached package file"]
        ELSE IF sha256 # "" /\ sha256 # pkg_sha
        THEN [copied EXCEPT !.err = "cached package sha256 mismatch"]
        ELSE IF ident.err # "" THEN [copied EXCEPT !.err = ident.err]
        ELSE [copied EXCEPT !.out_entries = Put(st.out_entries, package_id, e)]

RECURSIVE vendor_loop(_, _, _, _, _, _)
vendor_loop(st, ids, pkgs_map, cfiles, csigs, selected) ==
    IF ids = <<>> \/ st.err # "" THEN st
    ELSE vendor_loop(vendor_one(st, Head(ids), pkgs_map[Head(ids)], cfiles, csigs, selected),
                     Tail(ids), pkgs_map, cfiles, csigs, selected)

\* vendor_v0(VendorOptions(cache_dir, dest_dir, lock_path, package_ids)): the
\* vendor directory and the lockfile afterwards, and the error raised.
\* selected is set(opts.package_ids or []).
vendor_v0(cfiles, csigs, cindex, vfiles, vsigs, lock, selected) ==
    LET st == vendor_loop([files |-> vfiles, sigs |-> vsigs, out_entries |-> Empty,
                           err |-> ""],
                          SortedStrings(DOMAIN cindex), cindex, cfiles, csigs, selected)
        out(e, l) == [files |-> st.files, sigs |-> st.sigs, lock |-> l, err |-> e]
    IN  IF st.err # "" THEN out(st.err, lock)
        ELSE IF selected # {} /\ selected \ DOMAIN cindex # {}
        THEN out("requested package ids not found in cache index", lock)
        ELSE IF \E p \in DOMAIN st.out_entries : st.out_entries[p].source_id = ""
        THEN out("is missing source_id", lock)
        \* save_lock(opts.lock_path, out_entries)
        ELSE out("", [exists |-> TRUE, packages |-> st.out_entries])

\* No compiler pass is running in the specifications of the package tools.
MirIdle == mirFn = None /\ mirVerdict = None
ThrowIdle == throwArgs = None /\ throwVerdict = None
StageIdle == stageFn = None /\ stageResult = None
CheckIdle == program = None /\ checkResult = None
PkgIdle == loadedPkg = None /\ pkgResult = None
SignIdle == signFiles = None /\ signLast = None
TrustIdle == trustStore = None /\ trustLast = None
SaveIdle == outFiles = None /\ readSeen = None
LaterIdle == StageIdle /\ CheckIdle /\ PkgIdle /\ SignIdle /\ TrustIdle /\ SaveIdle

\* Every part of the state that the specification of one component (own)
\* does not use is idle, and stays as it is.
OthersIdle(own) ==
    /\ IF "stage" \in own THEN TRUE ELSE StageIdle
    /\ IF "check" \in own THEN TRUE ELSE CheckIdle
    /\ IF "pkg" \in own THEN TRUE ELSE PkgIdle
    /\ IF "sign" \in own THEN TRUE ELSE SignIdle
    /\ IF "trust" \in own THEN TRUE ELSE TrustIdle
    /\ IF "save" \in own THEN TRUE ELSE SaveIdle

OthersUnchanged(own) ==
    /\ IF "stage" \in own THEN TRUE ELSE UNCHANGED stageVars
    /\ IF "check" \in own THEN TRUE ELSE UNCHANGED checkVars
    /\ IF "pkg" \in own THEN TRUE ELSE UNCHANGED pkgVars
    /\ IF "sign" \in own THEN TRUE ELSE UNCHANGED signVars
    /\ IF "trust" \in own THEN TRUE ELSE UNCHANGED trustVars
    /\ IF "save" \in own THEN TRUE ELSE UNCHANGED saveVars

CompilerIdle == MirIdle /\ ThrowIdle /\ LaterIdle

(***************************************************************************)
(* The world: two directory repositories, one project                      *)
(***************************************************************************)

Repos == {"ra", "rb"}

\* The repository directory a source id names in the sources file.
RepoOf(source_id) == IF source_id = "a" THEN "ra" ELSE "rb"

MaxPriority == 1
MaxSources == 2
MaxPkgArgs == 2
MaxPublish == 2

SourceIds == {"a", "b"}

\* The sources files the user may write.
SourceEntries ==
    {DirSource(id, pr, RepoOf(id)) : id \in SourceIds, pr \in 0..MaxPriority}

SourcesChoices ==
    UNION {[1..n -> SourceEntries] : n \in 0..MaxSources}

\* The command lines of publish: one to MaxPkgArgs package paths.
PathArgs == UNION {[1..n -> PkgPaths] : n \in 1..MaxPkgArgs}

NoLock == [exists |-> FALSE, packages |-> Empty]

Done(cmd, err) == [cmd |-> cmd, err |-> err, fetched |-> Empty]

Init ==
    /\ repoFiles = [r \in Repos |-> Empty]
    /\ repoSigs = [r \in Repos |-> Empty]
    /\ repoIndex = [r \in Repos |-> Empty]
    /\ sourcesFile = <<>>
    /\ lockFile = NoLock
    /\ cacheFiles = Empty
    /\ cacheSigs = Empty
    /\ cacheIndex = Empty
    /\ vendorFiles = Empty
    /\ vendorSigs = Empty
    /\ last = Done("init", "")
    /\ npub = 0
    /\ CompilerIdle

\* drift publish --dest-dir r [--force] [--allow-unsigned] paths...
Publish(r, paths, force, allow_unsigned) ==
    \E res \in {publish_packages_v0(repoFiles[r], repoSigs[r], repoIndex[r],
                                     paths, force, allow_unsigned)} :
        /\ repoFiles' = [repoFiles EXCEPT ![r] = res.files]
        /\ repoSigs' = [repoSigs EXCEPT ![r] = res.sigs]
        /\ repoIndex' = [repoIndex EXCEPT ![r] = res.index]
        /\ last' = Done("publish", res.err)
        /\ npub' = IF npub < MaxPublish THEN npub + 1 ELSE npub
        /\ UNCHANGED <<sourcesFile, lockFile, cacheVars, vendorVars,
                       compilerVars>>

\* drift fetch --sources ... --cache-dir ... --lock ... [--force]
Fetch(force) ==
    \E res \in {fetch_v0(sourcesFile, repoFiles, repoSigs, repoIndex, lockFile,
                        cacheFiles, cacheSigs, cacheIndex, force)} :
        /\ cacheFiles' = res.files
        /\ cacheSigs' = res.sigs
        /\ cacheIndex' = res.index
        /\ last' = [cmd |-> "fetch", err |-> res.err, fetched |-> res.fetched]
        /\ UNCHANGED <<repoVars, sourcesFile, lockFile, vendorVars, npub,
                       compilerVars>>

\* drift vendor --cache-dir ... --dest-dir ... --lock ... [--package-id ...]
Vendor(selected) ==
    \E res \in {vendor_v0(cacheFiles, cacheSigs, cacheIndex, vendorFiles, vendorSigs,
                           lockFile, selected)} :
        /\ vendorFiles' = res.files
        /\ vendorSigs' = res.sigs
        /\ lockFile' = res.lock
        /\ last' = [cmd |-> "vendor", err |-> res.err, fetched |-> Empty,
                    selected |-> selected]
        /\ UNCHANGED <<repoVars, sourcesFile, cacheVars, npub,
                       compilerVars>>

\* The user deletes the cache directory.
DeleteCache ==
    /\ cacheFiles' = Empty
    /\ cacheSigs' = Empty
    /\ cacheIndex' = Empty
    /\ last' = Done("edit", "")
    /\ UNCHANGED <<repoVars, sourcesFile, lockFile, vendorVars, npub, compilerVars>>

(***************************************************************************)
(* Publishing alone                                                        *)
(***************************************************************************)

NextPublish ==
    \E paths \in PathArgs, force \in BOOLEAN, allow_unsigned \in BOOLEAN :
        Publish("ra", paths, force, allow_unsigned)

SpecPublish == Init /\ [][NextPublish]_vars

\* The user removes the i-th source from drift-sources.json.
DropSource(i) ==
    /\ i \in 1..Len(sourcesFile)
    /\ sourcesFile' = SubSeq(sourcesFile, 1, i - 1)
                         \o SubSeq(sourcesFile, i + 1, Len(sourcesFile))
    /\ last' = Done("edit", "")
    /\ UNCHANGED <<repoVars, lockFile, cacheVars, vendorVars, npub, compilerVars>>

(***************************************************************************)
(* The project: repositories are published to, then fetched from          *)
(***************************************************************************)

\* The sources file is written before the first fetch.
InitFetch ==
    /\ repoFiles = [r \in Repos |-> Empty]
    /\ repoSigs = [r \in Repos |-> Empty]
    /\ repoIndex = [r \in Repos |-> Empty]
    /\ sourcesFile \in SourcesChoices
    /\ lockFile = NoLock
    /\ cacheFiles = Empty
    /\ cacheSigs = Empty
    /\ cacheIndex = Empty
    /\ vendorFiles = Empty
    /\ vendorSigs = Empty
    /\ last = Done("init", "")
    /\ npub = 0
    /\ CompilerIdle

PublishOne ==
    \E r \in Repos, p \in DOMAIN BuiltPkgs, force \in BOOLEAN :
        npub < MaxPublish /\ Publish(r, <<p>>, force, TRUE)

\* Publishing and fetching without a lockfile.
NextFetch ==
    \/ PublishOne
    \/ \E force \in BOOLEAN : Fetch(force)

SpecFetch == InitFetch /\ [][NextFetch]_vars

\* The whole round: publish, fetch, vendor (which writes the lockfile), with
\* the sources file edited and the cache deleted in between.
NextProject ==
    \/ PublishOne
    \/ \E i \in 1..MaxSources : DropSource(i)
    \/ \E force \in BOOLEAN : Fetch(force)
    \/ Vendor({})
    \/ DeleteCache

SpecProject == InitFetch /\ [][NextProject]_vars

(***************************************************************************)
(* Vendoring: one or two sources, one of which the user named `unknown`    *)
(***************************************************************************)

\* The sources files of this project: load_sources_v0 takes any non-empty
\* string for an id.
VendorSources ==
    {<<DirSource("a", 0, "ra")>>,
     <<DirSource("unknown", 0, "rb")>>,
     <<DirSource("a", 0, "ra"), DirSource("unknown", 0, "rb")>>}

\* --package-id arguments of vendor: none (all cached packages), lib, or an
\* id the cache may not hold.
VendorSelections == {{}, {"lib"}, {"lib-x"}}

InitVendor ==
    /\ repoFiles = [r \in Repos |-> Empty]
    /\ repoSigs = [r \in Repos |-> Empty]
    /\ repoIndex = [r \in Repos |-> Empty]
    /\ sourcesFile \in VendorSources
    /\ lockFile = NoLock
    /\ cacheFiles = Empty
    /\ cacheSigs = Empty
    /\ cacheIndex = Empty
    /\ vendorFiles = Empty
    /\ vendorSigs = Empty
    /\ last = Done("init", "")
    /\ npub = 0
    /\ CompilerIdle

NextVendor ==
    \/ PublishOne
    \/ \E force \in BOOLEAN : Fetch(force)
    \/ \E selected \in VendorSelections : Vendor(selected)
    \/ DeleteCache

SpecVendor == InitVendor /\ [][NextVendor]_vars

(***************************************************************************)
(* The project with a lockfile written by hand                             *)
(***************************************************************************)

\* The source ids a hand-written lock entry may carry: a source id, the
\* placeholder, the empty string, or none at all.
LockSourceIds == SourceIds \cup {"unknown", "", None}

\* The sidecar digests a hand-written lock entry may pin.
LockSigPins == {None, Sha256Of(BuiltSigs["a.dmp"]), "sha256:other"}

\* The lock entry that names built package p, as vendor_v0 would write it.
LockEntryFor(p, source_id, sig_sha256) ==
    LET pkg == BuiltPkgs[p]
        ident == read_identity_v0(pkg)
    IN  LockEntry(ident.package_version, ident.target, Sha256Of(pkg), sig_sha256,
                  IF sig_sha256 = None THEN {} ELSE {"k1"}, ident.manifest.modules,
                  source_id, base_name(ident))

\* Locks of one entry that pin a source, with any pin of the sidecar for the
\* signed package; locks of one entry that pin no source; locks of two
\* entries that pin sources and no sidecar.
HandLocks ==
    UNION {{[exists |-> TRUE,
             packages |-> Put(Empty, BuiltPkgs[p].manifest.package_id,
                              LockEntryFor(p, s, g))] :
               s \in SourceIds,
               g \in IF p \in DOMAIN BuiltSigs THEN LockSigPins ELSE {None}} :
           p \in DOMAIN BuiltPkgs}
    \cup
    {[exists |-> TRUE,
      packages |-> Put(Empty, BuiltPkgs[p].manifest.package_id, LockEntryFor(p, s, None))] :
        p \in {"a.dmp"}, s \in LockSourceIds \ SourceIds}
    \cup
    {[exists |-> TRUE,
      packages |-> Put(Put(Empty, BuiltPkgs[p].manifest.package_id, LockEntryFor(p, s, None)),
                       BuiltPkgs[q].manifest.package_id, LockEntryFor(q, t, None))] :
        p \in DOMAIN BuiltPkgs, q \in {"d.dmp"}, s \in SourceIds, t \in SourceIds}

InitLock ==
    /\ repoFiles = [r \in Repos |-> Empty]
    /\ repoSigs = [r \in Repos |-> Empty]
    /\ repoIndex = [r \in Repos |-> Empty]
    /\ sourcesFile \in {s \in SourcesChoices :
                          /\ \A i \in 1..Len(s) : s[i].priority = 0
                          /\ ~has_duplicate_source_id(s)}
    /\ lockFile \in HandLocks \cup {NoLock}
    /\ cacheFiles = Empty
    /\ cacheSigs = Empty
    /\ cacheIndex = Empty
    /\ vendorFiles = Empty
    /\ vendorSigs = Empty
    /\ last = Done("init", "")
    /\ npub = 0
    /\ CompilerIdle

NextLock ==
    \/ PublishOne
    \/ \E force \in BOOLEAN : Fetch(force)

SpecLock == InitLock /\ [][NextLock]_vars

(***************************************************************************)
(* Claims about publish and the index                                      *)
(***************************************************************************)

\* The index entry publish builds for built package p.
PublishedEntry(p) ==
    LET ident == read_identity_v0(BuiltPkgs[p])
    IN  IndexEntry(ident.package_id, ident.package_version, ident.target,
                   Sha256Of(BuiltPkgs[p]), base_name(ident),
                   IF p \in DOMAIN BuiltSigs THEN BuiltSigs[p].kids ELSE {},
                   p \notin DOMAIN BuiltSigs, None, None)

\* index.json of repository r records for package_id the digest of the file
\* it names.
ContentAddressed(r, package_id) ==
    LET e == repoIndex[r][package_id]
    IN  /\ e.filename \in DOMAIN repoFiles[r]
        /\ e.sha256 = Sha256Of(repoFiles[r][e.filename])

\* C4: after any sequence of publish operations on a repository, succeeding
\* or failing, with or without force, every package id of its index.json
\* records the SHA-256 of the bytes of the stored file its entry names.
C4_IndexMatchesStoredBytes ==
    \A r \in Repos : \A package_id \in DOMAIN repoIndex[r] : ContentAddressed(r, package_id)

\* C6: with an entry for the package id already in the index and force not
\* set, upsert_entry raises and leaves the index as it was if the new entry's
\* version, target or sha256 differs from the existing entry's; with force
\* set it replaces the entry.
C6_UpsertRejectsDiffering ==
    \A r \in Repos : \A p \in DOMAIN BuiltPkgs :
        LET pkgs == repoIndex[r]
            entry == PublishedEntry(p)
            old == pkgs[entry.package_id]
            differs == \/ old.package_version # entry.package_version
                       \/ old.target # entry.target
                       \/ old.sha256 # entry.sha256
            plain == upsert_entry(pkgs, entry, FALSE)
            forced == upsert_entry(pkgs, entry, TRUE)
        IN  entry.package_id \in DOMAIN pkgs =>
              /\ differs => plain.err # "" /\ plain.pkgs = pkgs
              /\ forced.err = ""
              /\ forced.pkgs[entry.package_id].package_version = entry.package_version
              /\ forced.pkgs[entry.package_id].target = entry.target
              /\ forced.pkgs[entry.package_id].sha256 = entry.sha256
              /\ forced.pkgs[entry.package_id].filename = entry.filename
              /\ \A q \in DOMAIN pkgs \ {entry.package_id} : forced.pkgs[q] = pkgs[q]

\* C6 witness: a publish without force has been refused by upsert_entry
\* because an entry of another version, or of other bytes, was in the index.
C6_Witness ==
    /\ last.cmd = "publish"
    /\ last.err \in {"already published as", "already published with different sha256"}
    /\ \E r \in Repos : \E p \in DOMAIN BuiltPkgs :
          /\ PublishedEntry(p).package_id \in DOMAIN repoIndex[r]
          /\ repoIndex[r][PublishedEntry(p).package_id].sha256 # PublishedEntry(p).sha256

\* C7: when publish_packages_v0, fetch_v0 or vendor_v0 fails, the output
\* location (repository directory, cache pkgs directory, vendor directory)
\* holds the same files with the same bytes as before the invocation.
C7_NoPartialOutput ==
    [][/\ last'.cmd = "publish" /\ last'.err # ""
          => repoFiles' = repoFiles /\ repoSigs' = repoSigs
       /\ last'.cmd = "fetch" /\ last'.err # ""
          => cacheFiles' = cacheFiles /\ cacheSigs' = cacheSigs
       /\ last'.cmd = "vendor" /\ last'.err # ""
          => vendorFiles' = vendorFiles /\ vendorSigs' = vendorSigs]_vars

(***************************************************************************)
(* Claims about fetch.  What the claims call the configured sources, the   *)
(* sources listing a package id and the selected source is said here from  *)
(* the files alone, not by the operators that model fetch_v0.              *)
(***************************************************************************)

\* The positions in the sources file of the sources whose index lists package_id.
Listing(package_id) ==
    {i \in 1..Len(sourcesFile) : package_id \in DOMAIN repoIndex[sourcesFile[i].path]}

\* The package ids some configured source lists.
ListedIds == {package_id \in {"lib", "lib-x"} : Listing(package_id) # {}}

\* (priority, source_id) of source i is the lowest among the sources in S.
Lowest(i, S) ==
    \A j \in S :
        \/ sourcesFile[i].priority < sourcesFile[j].priority
        \/ /\ sourcesFile[i].priority = sourcesFile[j].priority
           /\ Rank(sourcesFile[i].source_id) <= Rank(sourcesFile[j].source_id)

UniqueSourceIds ==
    \A i, j \in 1..Len(sourcesFile) :
        sourcesFile[i].source_id = sourcesFile[j].source_id => i = j

\* The bytes of the package file source i holds for package_id.
SourceBytes(i, package_id) ==
    LET r == sourcesFile[i].path
    IN  repoFiles[r][repoIndex[r][package_id].filename]

FetchOk == last.cmd = "fetch" /\ last.err = ""

SelectedFrom(package_id) ==
    IF lockFile.exists
    THEN IF package_id \in DOMAIN lockFile.packages
         THEN {i \in Listing(package_id) :
                 sourcesFile[i].source_id = lockFile.packages[package_id].source_id}
         ELSE {}
    ELSE {i \in Listing(package_id) : Lowest(i, Listing(package_id))}

SelectedIds == {package_id \in {"lib", "lib-x"} : SelectedFrom(package_id) # {}}

SourceEntry(i, package_id) == repoIndex[sourcesFile[i].path][package_id]

\* The file selected for package_id does not hash to its index sha256.
BadHash(package_id) ==
    \E i \in SelectedFrom(package_id) :
        Sha256Of(SourceBytes(i, package_id)) # SourceEntry(i, package_id).sha256

\* The manifest of the file selected for package_id disagrees with its index entry.
BadIdentity(package_id) ==
    \E i \in SelectedFrom(package_id) :
        LET m == SourceBytes(i, package_id).manifest
            e == SourceEntry(i, package_id)
        IN  \/ m.package_id # package_id
            \/ m.package_version # e.package_version
            \/ m.target # e.target

Sha256MismatchErrors ==
    {"sha256 mismatch for fetched package", "sha256 mismatch vs lock"}

MatchesLock(package_id) ==
    LET want == lockFile.packages[package_id]
        e == cacheIndex[package_id]
    IN  /\ package_id \in DOMAIN cacheIndex
        /\ e.filename \in DOMAIN cacheFiles
        /\ Sha256Of(cacheFiles[e.filename]) = want.pkg_sha256
        /\ e.package_version = want.version
        /\ e.target = want.target
        /\ Truthy(want.sig_sha256) =>
              /\ e.filename \in DOMAIN cacheSigs
              /\ Sha256Of(cacheSigs[e.filename]) = want.sig_sha256

\* C3: whenever fetch_v0 succeeds with a lockfile present, every package it
\* placed in the cache matches its lock entry: the cached file's SHA-256 is
\* the lock's pkg_sha256, the index version and target are the lock's, and
\* a pinned sig_sha256 is the SHA-256 of the cached sidecar.
C3_LockedFetchMatchesLock ==
    FetchOk /\ lockFile.exists =>
        \A package_id \in DOMAIN last.fetched :
            package_id \in DOMAIN lockFile.packages /\ MatchesLock(package_id)

\* The position of the source the lock pins package_id to, when configured.
Pinned(package_id) ==
    {i \in 1..Len(sourcesFile) :
        sourcesFile[i].source_id = lockFile.packages[package_id].source_id}

\* C5: with a lockfile present, fetch_v0 fetches only package ids of the
\* lock and takes each from the source whose id is the lock entry's
\* source_id; when that source is not configured, or does not list the
\* package while another source does, fetch fails and takes the package
\* from no source.
C5_LockPinsSource ==
    last.cmd = "fetch" /\ lockFile.exists =>
        /\ \A package_id \in DOMAIN last.fetched :
              /\ package_id \in DOMAIN lockFile.packages
              /\ last.fetched[package_id].source_id = lockFile.packages[package_id].source_id
              /\ \E i \in Pinned(package_id) \cap Listing(package_id) :
                    last.fetched[package_id].bytes = SourceBytes(i, package_id)
        /\ \A package_id \in DOMAIN lockFile.packages :
              Listing(package_id) # {} /\ Pinned(package_id) \cap Listing(package_id) = {}
                  => last.err # "" /\ package_id \notin DOMAIN last.fetched

\* C5 witness: a locked fetch has failed because the lock pins lib to a
\* source that does not list it, while the other configured source does.
C5_Witness ==
    /\ last.cmd = "fetch" /\ last.err = "lock pins package_id to unknown source id"
    /\ lockFile.exists /\ "lib" \in DOMAIN lockFile.packages
    /\ Len(sourcesFile) = 2
    /\ Pinned("lib") # {}
    /\ Listing("lib") # {}
    /\ Pinned("lib") \cap Listing("lib") = {}

\* C8: with a lockfile present, fetch_v0 fails if some package id of the
\* lock is provided by none of the sources configured for this run.
C8_LockedIdWithoutSource ==
    last.cmd = "fetch" /\ lockFile.exists
    /\ (\E package_id \in DOMAIN lockFile.packages : Listing(package_id) = {})
        => last.err # ""

\* The lock has an entry whose source_id is missing, empty or 'unknown'.
UnpinnedLock ==
    /\ lockFile.exists
    /\ \E package_id \in DOMAIN lockFile.packages :
          lockFile.packages[package_id].source_id \in {None, "", "unknown"}

LockAgrees(package_id) ==
    lockFile.exists => \A i \in SelectedFrom(package_id) :
        LET want == lockFile.packages[package_id]
            e == SourceEntry(i, package_id)
        IN  /\ want.version = e.package_version
            /\ want.target = e.target
            /\ want.pkg_sha256 = e.sha256
            /\ want.path = e.filename

\* Every package id of the lock that some source lists is listed by the
\* source its entry pins, and every entry is pinned.
LockSelects ==
    /\ ~UnpinnedLock
    /\ \A package_id \in DOMAIN lockFile.packages :
          Listing(package_id) # {} => SelectedFrom(package_id) # {}

\* C10 as stated: fetch_v0 fails with an identity-mismatch error, and does
\* not record the package in the cache index, whenever the identity declared
\* in a selected package file's manifest differs from its source index entry.
C10_IdentityMismatchAlways ==
    [][last'.cmd = "fetch" /\ UniqueSourceIds /\ LockSelects
       /\ (\E id \in SelectedIds : BadIdentity(id))
         => /\ last'.err = "package identity mismatch"
            /\ cacheIndex' = cacheIndex]_vars

\* C10: whenever the identity declared in the manifest of a selected package
\* file differs from its source index entry, fetch_v0 fails and the cache
\* index is left as it was; the error is the identity mismatch when that
\* package is the lowest selected package id and its lock entry, when a
\* lockfile exists, agrees with the index entry of the pinned source.
C10_IdentityMismatch ==
    [][last'.cmd = "fetch" /\ UniqueSourceIds /\ LockSelects
       /\ (\E id \in SelectedIds : BadIdentity(id))
         => /\ last'.err # ""
            /\ cacheIndex' = cacheIndex
            /\ \A id \in SelectedIds :
                  /\ BadIdentity(id) /\ LockAgrees(id)
                  /\ \A other \in SelectedIds : Rank(id) <= Rank(other)
                  => last'.err = "package identity mismatch"]_vars

\* C10 witness: a locked fetch has been refused for lib, whose file in the
\* pinned source declares another identity than the index entry the lock
\* agrees with.
C10_Witness ==
    /\ last.cmd = "fetch" /\ last.err = "package identity mismatch"
    /\ lockFile.exists /\ "lib" \in SelectedIds
    /\ BadIdentity("lib") /\ LockAgrees("lib")
    /\ "lib" \notin DOMAIN cacheIndex

(***************************************************************************)
(* Claims about vendor                                                     *)
(***************************************************************************)

VendorOk == last.cmd = "vendor" /\ last.err = ""

\* The package ids the last vendor run was asked for: those of the cache
\* index, restricted to --package-id when given.
Vendored ==
    IF last.selected = {} THEN DOMAIN cacheIndex
    ELSE DOMAIN cacheIndex \cap last.selected

C12_VendoredLockLoads ==
    VendorOk => load_lock(lockFile.packages) = ""

\* C13: after any sequence of publish operations a repository holds at most
\* one version per package_id: no stored package file declares a package id
\* of the index with another version than the index records.
C13_OneVersionPerId ==
    \A r \in Repos : \A f \in DOMAIN repoFiles[r] :
        LET m == repoFiles[r][f].manifest
        IN  m.package_id \in DOMAIN repoIndex[r]
              => m.package_version = repoIndex[r][m.package_id].package_version

(***************************************************************************)
(* lang/mir_verifier: verify_function                                      *)
(* A MIR function is [entry, blocks]; blocks maps a block name to          *)
(* [params, instructions, terminator].  verify_function returns None or    *)
(* raises; the model keeps the class of the exception raised, not its      *)
(* message.  Where the code loops over fn.blocks and raises at the first   *)
(* failure, the model asks whether any block fails: the class raised is    *)
(* the same.  The types recorded in in_state are left out: no check of     *)
(* _verify_block reads them.                                               *)
(***************************************************************************)

Accepted == "accepted"
VerificationError == "VerificationError"
KeyError == "KeyError"
TypeError == "TypeError"

Param(name, type) == [name |-> name, type |-> type]
Edge(target, args) == [target |-> target, args |-> args]
Const(dest, type) == [op |-> "Const", dest |-> dest, type |-> type]
Move(dest, source) == [op |-> "Move", dest |-> dest, source |-> source]
Copy(dest, source) == [op |-> "Copy", dest |-> dest, source |-> source]
Drop(value) == [op |-> "Drop", value |-> value]
Return(value) == [op |-> "Return", value |-> value]
Br(target) == [op |-> "Br", target |-> target]
CondBr(cond, then, els) == [op |-> "CondBr", cond |-> cond, then |-> then, els |-> els]
NoTerminator == [op |-> "None"]
BasicBlock(params, instructions, terminator) ==
    [params |-> params, instructions |-> instructions, terminator |-> terminator]
Function(entry, blocks) == [entry |-> entry, blocks |-> blocks]

Range(seq) == {seq[i] : i \in DOMAIN seq}

\* {p.name: p.type for p in params}
param_types(params) ==
    [n \in {params[i].name : i \in DOMAIN params} |->
        params[CHOOSE i \in DOMAIN params :
                  /\ params[i].name = n
                  /\ \A j \in DOMAIN params : j > i => params[j].name # n].type]

\* The edges a terminator carries, in the order the code visits them.
edges_of(term) ==
    IF term.op = "Br" THEN <<term.target>>
    ELSE IF term.op = "CondBr" THEN <<term.then, term.els>>
    ELSE <<>>

\* One block of _compute_defs_and_types: acc is [defined, types].
RECURSIVE scan_defs_types(_, _, _)
scan_defs_types(instructions, i, acc) ==
    IF i > Len(instructions) THEN acc
    ELSE
    LET instr == instructions[i]
    IN  scan_defs_types(instructions, i + 1,
          IF instr.op = "Const"
          THEN [defined |-> acc.defined \cup {instr.dest},
                types |-> Put(acc.types, instr.dest, instr.type)]
          ELSE IF instr.op \in {"Move", "Copy"}
          THEN [defined |-> acc.defined \cup {instr.dest},
                types |-> IF instr.source \in DOMAIN acc.types
                          THEN Put(acc.types, instr.dest, acc.types[instr.source])
                          ELSE acc.types]
          ELSE acc)

\* [block name -> [defined, types]]
compute_defs_and_types(fn) ==
    [name \in DOMAIN fn.blocks |->
        scan_defs_types(fn.blocks[name].instructions, 1,
            [defined |-> {p.name : p \in Range(fn.blocks[name].params)},
             types |-> param_types(fn.blocks[name].params)])]

\* incoming[edge.target].append(...) on a dict that has the block names as
\* its keys: an edge to a name that is no block raises KeyError.
compute_incoming_args(fn, dt) ==
    IF \E name \in DOMAIN fn.blocks :
          \E e \in Range(edges_of(fn.blocks[name].terminator)) :
              e.target \notin DOMAIN fn.blocks
    THEN [err |-> KeyError, incoming |-> Empty]
    ELSE [err |-> "",
          incoming |->
            [name \in DOMAIN fn.blocks |->
               UNION {{[args |-> e.args,
                        arg_types |-> [i \in DOMAIN e.args |->
                                          Get(dt[source_name].types, e.args[i], None)]] :
                          e \in {ed \in Range(edges_of(fn.blocks[source_name].terminator)) :
                                    ed.target = name}} :
                       source_name \in DOMAIN fn.blocks}]]

\* in_state: the names defined at block entry.  The loop reaches its fixed
\* point in one round, since what is merged does not depend on in_state.
dataflow_defs_types(fn, incoming) ==
    [name \in DOMAIN fn.blocks |->
        {p.name : p \in Range(fn.blocks[name].params)}
          \cup UNION {Range(inc.args) : inc \in incoming[name]}]

ensure_edge(fn, edge, defined, src_types) ==
    IF edge.target \notin DOMAIN fn.blocks THEN VerificationError
    ELSE
    LET dest_params == fn.blocks[edge.target].params
    IN  IF Len(edge.args) # Len(dest_params) THEN VerificationError
        ELSE IF \E i \in DOMAIN edge.args : edge.args[i] \notin defined
        THEN VerificationError
        ELSE IF \E i \in DOMAIN edge.args :
                  /\ edge.args[i] \in DOMAIN src_types
                  /\ src_types[edge.args[i]] # dest_params[i].type
        THEN VerificationError
        ELSE ""

\* walk of _verify_cfg, depth first; todo is the stack of calls to make.
RECURSIVE walk(_, _, _, _)
walk(fn, dt, todo, seen) ==
    IF todo = <<>> THEN [err |-> "", seen |-> seen]
    ELSE
    LET name == Head(todo)
        rest == Tail(todo)
    IN  IF name \in seen THEN walk(fn, dt, rest, seen)
        ELSE IF name \notin DOMAIN fn.blocks
        THEN [err |-> VerificationError, seen |-> seen]
        ELSE
        LET term == fn.blocks[name].terminator
            edges == edges_of(term)
        IN  IF \E i \in DOMAIN edges :
                  ensure_edge(fn, edges[i], dt[name].defined, dt[name].types) # ""
            THEN [err |-> VerificationError, seen |-> seen \cup {name}]
            ELSE IF term.op \in {"Br", "CondBr", "Return"}
            THEN walk(fn, dt, [i \in DOMAIN edges |-> edges[i].target] \o rest,
                      seen \cup {name})
            ELSE [err |-> VerificationError, seen |-> seen \cup {name}]

verify_cfg(fn, dt, incoming) ==
    LET w == walk(fn, dt, <<fn.entry>>, {})
    IN  IF w.err # "" THEN w.err
        ELSE IF Cardinality(w.seen) # Cardinality(DOMAIN fn.blocks)
        THEN VerificationError
        ELSE IF \E name \in DOMAIN fn.blocks : \E inc \in incoming[name] :
                  LET params == fn.blocks[name].params
                  IN  \/ Len(inc.args) # Len(params)
                      \/ \E idx \in DOMAIN params :
                            /\ inc.arg_types[idx] # None
                            /\ inc.arg_types[idx] # params[idx].type
        THEN VerificationError
        ELSE IF \E name \in DOMAIN fn.blocks :
                  \E p \in Range(fn.blocks[name].params) :
                      p.name \notin dt[name].defined
        THEN VerificationError
        \* the closing loop calls _ensure_edge(fn, edge, block) without its
        \* required arguments defs, types and source_block
        ELSE IF \E name \in DOMAIN fn.blocks :
                  fn.blocks[name].terminator.op \in {"Br", "CondBr"}
        THEN TypeError
        ELSE ""

\* State of _verify_block: [defined, moved, dropped, err].
ensure_operand(state, name) ==
    IF name \notin state.defined THEN VerificationError
    ELSE IF name \in state.moved THEN VerificationError
    ELSE IF name \in state.dropped THEN VerificationError
    ELSE ""

RECURSIVE verify_instructions(_, _, _)
verify_instructions(instructions, i, state) ==
    IF i > Len(instructions) \/ state.err # "" THEN state
    ELSE
    LET instr == instructions[i]
        raised == [state EXCEPT !.err = VerificationError]
    IN  verify_instructions(instructions, i + 1,
          IF instr.op = "Const"
          THEN IF instr.dest \in state.defined THEN raised
               ELSE [state EXCEPT !.defined = @ \cup {instr.dest}]
          ELSE IF instr.op = "Move"
          THEN IF ensure_operand(state, instr.source) # "" THEN raised
               ELSE IF instr.dest \in state.defined THEN raised
               ELSE [state EXCEPT !.defined = @ \cup {instr.dest},
                                  !.moved = @ \cup {instr.source}]
          ELSE IF instr.op = "Copy"
          THEN IF ensure_operand(state, instr.source) # "" THEN raised
               ELSE IF instr.dest \in state.defined THEN raised
               ELSE [state EXCEPT !.defined = @ \cup {instr.dest}]
          ELSE IF instr.op = "Drop"
          THEN IF ensure_operand(state, instr.value) # "" THEN raised
               ELSE [state EXCEPT !.dropped = @ \cup {instr.value}]
          ELSE raised)

verify_block(fn, block, defs_in) ==
    LET state == verify_instructions(block.instructions, 1,
                    [defined |-> defs_in, moved |-> {}, dropped |-> {}, err |-> ""])
        term == block.terminator
    IN  IF state.err # "" THEN state.err
        ELSE IF term.op = "Br" THEN ensure_edge(fn, term.target, {}, Empty)
        ELSE IF term.op = "CondBr"
        THEN IF ensure_operand(state, term.cond) # "" THEN VerificationError
             ELSE IF ensure_edge(fn, term.then, {}, Empty) # "" THEN VerificationError
             ELSE ensure_edge(fn, term.els, {}, Empty)
        ELSE IF term.op = "Return"
        THEN IF term.value # None THEN ensure_operand(state, term.value) ELSE ""
        ELSE VerificationError

verify_function(fn) ==
    IF fn.entry \notin DOMAIN fn.blocks THEN VerificationError
    ELSE IF \E name \in DOMAIN fn.blocks : fn.blocks[name].terminator.op = "None"
    THEN VerificationError
    ELSE
    LET dt == compute_defs_and_types(fn)
        inc == compute_incoming_args(fn, dt)
        in_state == dataflow_defs_types(fn, inc.incoming)
        cfg == verify_cfg(fn, dt, inc.incoming)
    IN  IF inc.err # "" THEN inc.err
        ELSE IF cfg # "" THEN cfg
        ELSE IF \E name \in DOMAIN fn.blocks :
                  verify_block(fn, fn.blocks[name], in_state[name]) # ""
        THEN VerificationError
        ELSE Accepted

(***************************************************************************)
(* The MIR functions handed to the verifier: an entry block and at most   *)
(* one more block, b1; edges may name a block zz that does not exist.     *)
(***************************************************************************)

MaxInstrs == 2
MaxBlockInstrs == 1

SeqsUpTo(S, n) == UNION {[1..k -> S] : k \in 0..n}

MirTypes == {"Int", "Bool"}

Instrs ==
    {Const("x", t) : t \in MirTypes}
      \cup {Move("y", "x"), Copy("y", "x"), Drop("x")}

Edges == {Edge(t, a) : t \in {"b1", "zz"}, a \in {<<>>, <<"x">>}}

EntryTerminators ==
    {NoTerminator, Return(None), Return("x"), Return("y")}
      \cup {Br(e) : e \in Edges}
      \cup {CondBr("x", e1, e2) : e1 \in Edges, e2 \in Edges}

EntryBlocks ==
    {BasicBlock(<<>>, is, t) :
        is \in SeqsUpTo(Instrs, MaxInstrs), t \in EntryTerminators}

OtherBlocks ==
    {BasicBlock(ps, is, t) :
        ps \in {<<>>} \cup {<<Param("p", ty)>> : ty \in MirTypes},
        is \in SeqsUpTo(Instrs, MaxBlockInstrs),
        t \in {Return(None), Return("x"), Return("p")}}

MirFunctions ==
    {Function("entry", "entry" :> e) : e \in EntryBlocks}
      \cup {Function("entry", ("entry" :> e) @@ ("b1" :> b)) :
               e \in EntryBlocks, b \in OtherBlocks}

\* The package tools are not run in the specifications of the compiler.
ToolsIdle ==
    /\ repoFiles = [r \in Repos |-> Empty]
    /\ repoSigs = [r \in Repos |-> Empty]
    /\ repoIndex = [r \in Repos |-> Empty]
    /\ sourcesFile = <<>>
    /\ lockFile = NoLock
    /\ cacheFiles = Empty
    /\ cacheSigs = Empty
    /\ cacheIndex = Empty
    /\ vendorFiles = Empty
    /\ vendorSigs = Empty
    /\ last = Done("init", "")
    /\ npub = 0

Pending == "pending"

InitMir ==
    /\ ToolsIdle
    /\ ThrowIdle
    /\ LaterIdle
    /\ mirFn \in MirFunctions
    /\ mirVerdict = Pending

VerifyFunction ==
    /\ mirVerdict = Pending
    /\ mirVerdict' = verify_function(mirFn)
    /\ UNCHANGED <<mirFn, toolVars, throwVars, laterVars>>

NextMir == VerifyFunction

SpecMir == InitMir /\ [][NextMir]_vars

(***************************************************************************)
(* Claims about the MIR verifier.  What it is for a function to use an    *)
(* undefined or a moved value is said over the paths of the function, not *)
(* by the operators that model the verifier.                               *)
(***************************************************************************)

Successors(fn, name) ==
    {e.target : e \in Range(edges_of(fn.blocks[name].terminator))}
      \cap DOMAIN fn.blocks

\* The paths from the entry block that visit no block twice, of up to k blocks.
RECURSIVE PathsUpTo(_, _)
PathsUpTo(fn, k) ==
    IF k <= 1
    THEN IF fn.entry \in DOMAIN fn.blocks THEN {<<fn.entry>>} ELSE {}
    ELSE LET P == PathsUpTo(fn, k - 1)
         IN  P \cup UNION {{Append(path, n) :
                               n \in Successors(fn, path[Len(path)]) \ Range(path)} :
                            path \in P}

Paths(fn) == PathsUpTo(fn, Cardinality(DOMAIN fn.blocks))

\* What one instruction or terminator reads, defines and consumes.
Event(uses, defs, kills) == [uses |-> uses, defs |-> defs, kills |-> kills]

InstrEvent(instr) ==
    IF instr.op = "Const" THEN Event({}, {instr.dest}, {})
    ELSE IF instr.op = "Move" THEN Event({instr.source}, {instr.dest}, {instr.source})
    ELSE IF instr.op = "Copy" THEN Event({instr.source}, {instr.dest}, {})
    ELSE Event({instr.value}, {}, {instr.value})

TerminatorEvent(term) ==
    Event((IF term.op = "Return" /\ term.value # None THEN {term.value} ELSE {})
            \cup (IF term.op = "CondBr" THEN {term.cond} ELSE {})
            \cup UNION {Range(e.args) : e \in Range(edges_of(term))},
          {}, {})

BlockEvents(block) ==
    <<Event({}, {p.name : p \in Range(block.params)}, {})>>
      \o [i \in DOMAIN block.instructions |-> InstrEvent(block.instructions[i])]
      \o <<TerminatorEvent(block.terminator)>>

RECURSIVE Trace(_, _)
Trace(fn, path) ==
    IF path = <<>> THEN <<>>
    ELSE BlockEvents(fn.blocks[Head(path)]) \o Trace(fn, Tail(path))

\* Some operand is read on some path from entry on which nothing defined it.
UsesUndefined(fn) ==
    \E path \in Paths(fn) :
        LET tr == Trace(fn, path)
        IN  \E i \in DOMAIN tr : \E v \in tr[i].uses :
                \A j \in 1..(i - 1) : v \notin tr[j].defs

\* Some operand is read on some path after a Move or Drop consumed it.
UsedAfterMoveOrDrop(fn) ==
    \E path \in Paths(fn) :
        LET tr == Trace(fn, path)
        IN  \E i \in DOMAIN tr : \E j \in 1..(i - 1) :
                tr[j].kills \cap tr[i].uses # {}

\* Some Br/CondBr edge to an existing block passes a wrong number of
\* arguments, or an argument whose type is not the parameter's.
EdgeMismatch(fn) ==
    \E name \in DOMAIN fn.blocks :
        \E e \in Range(edges_of(fn.blocks[name].terminator)) :
            /\ e.target \in DOMAIN fn.blocks
            /\ LET params == fn.blocks[e.target].params
                   types == compute_defs_and_types(fn)[name].types
               IN  \/ Len(e.args) # Len(params)
                   \/ \E i \in DOMAIN e.args :
                         /\ e.args[i] \in DOMAIN types
                         /\ types[e.args[i]] # params[i].type

Verified == mirVerdict # None /\ mirVerdict # Pending

\* C14: verify_function accepts a MIR function only if every operand it
\* uses is defined on every path from entry to the use, and it rejects with
\* a VerificationError every function that uses a value not defined on some
\* path.
C14_UndefinedUseRejected ==
    Verified =>
        /\ mirVerdict = Accepted => ~UsesUndefined(mirFn)
        /\ UsesUndefined(mirFn) => mirVerdict = VerificationError

\* C15: verify_function raises a VerificationError for every function in
\* which the source of a Move, or the operand of a Drop, is used again
\* later, in the same or in a different basic block.
C15_UseAfterMoveRejected ==
    Verified /\ UsedAfterMoveOrDrop(mirFn) => mirVerdict = VerificationError

\* C16: verify_function raises a VerificationError for every function with a
\* Br/CondBr edge whose argument count differs from the target block's
\* parameter count or whose argument type differs from the parameter's type.
C16_EdgeMismatchRejected ==
    Verified /\ EdgeMismatch(mirFn) => mirVerdict = VerificationError

(***************************************************************************)
(* lang2/stage4/throw_checks: run_throw_checks                             *)
(* funcs, summaries, declared_can_throw and ssa_funcs are dicts keyed by   *)
(* function name; ssa_funcs and type_env are [exists, ...] records, None   *)
(* being ~exists.  A type environment is the type it gives for each SSA    *)
(* value, of which only the kind is read.  run_throw_checks returns the infos or raises             *)
(* RuntimeError; the model keeps which.                                    *)
(***************************************************************************)

RuntimeError == "RuntimeError"

ConstInt(dest) == [op |-> "ConstInt", dest |-> dest]
ConstructResultOk(dest, value) == [op |-> "ConstructResultOk", dest |-> dest, value |-> value]
ConstructResultErr(dest, error) == [op |-> "ConstructResultErr", dest |-> dest, error |-> error]
MirBlock(instructions, terminator) ==
    [instructions |-> instructions, terminator |-> terminator]
MirFunc(blocks) == [blocks |-> blocks]
SsaFunc(func) == [func |-> func]
ThrowSummary(constructs_error, exception_types, may_fail_sites) ==
    [constructs_error |-> constructs_error, exception_types |-> exception_types,
     may_fail_sites |-> may_fail_sites]

\* Types, as far as the checks read them.
Type(kind, name, params) == [kind |-> kind, name |-> name, param_types |-> params]
IntType == Type("SCALAR", "Int", <<>>)
ErrorType == Type("ERROR", "Error", <<>>)
UnknownType == Type("UNKNOWN", "Unknown", <<>>)
new_fnresult(ok, err) == Type("FNRESULT", "FnResult", <<ok, err>>)

is_fnresult(ty) == ty.kind = "FNRESULT"
type_of_ssa_value(type_env, fname, value) == type_env.types[<<fname, value>>]

NoSsaFuncs == [exists |-> FALSE, funcs |-> Empty]
NoTypeEnv == [exists |-> FALSE, types |-> Empty]

\* A build_func_throw_info for which a function absent from the map is
\* declared can-throw.
build_func_throw_info_permissive(summaries, declared_can_throw) ==
    [fname \in DOMAIN summaries |->
        [constructs_error |-> summaries[fname].constructs_error,
         exception_types |-> summaries[fname].exception_types,
         may_fail_sites |-> summaries[fname].may_fail_sites,
         declared_can_throw |-> Get(declared_can_throw, fname, TRUE)]]

build_func_throw_info(summaries, declared_can_throw) ==
    [fname \in DOMAIN summaries |->
        [constructs_error |-> summaries[fname].constructs_error,
         exception_types |-> summaries[fname].exception_types,
         may_fail_sites |-> summaries[fname].may_fail_sites,
         declared_can_throw |-> Get(declared_can_throw, fname, FALSE)]]

enforce_can_throw_invariants(func_infos) ==
    IF \E fname \in DOMAIN func_infos :
          func_infos[fname].constructs_error /\ ~func_infos[fname].declared_can_throw
    THEN RuntimeError ELSE ""

enforce_return_shape_for_can_throw(func_infos, funcs) ==
    IF \E fname \in DOMAIN func_infos :
          /\ func_infos[fname].declared_can_throw
          /\ fname \in DOMAIN funcs
          /\ \E name \in DOMAIN funcs[fname].blocks :
                LET term == funcs[fname].blocks[name].terminator
                IN  term.op = "Return" /\ term.value = None
    THEN RuntimeError ELSE ""

\* A structural check that lets every returned value pass.
enforce_fnresult_returns_off(func_infos, funcs) == ""

enforce_fnresult_returns_for_can_throw(func_infos, funcs) ==
    IF \E fname \in DOMAIN func_infos :
          /\ func_infos[fname].declared_can_throw
          /\ fname \in DOMAIN funcs
          /\ \E name \in DOMAIN funcs[fname].blocks :
                LET term == funcs[fname].blocks[name].terminator
                IN  /\ term.op = "Return"
                    /\ term.value # None
                    /\ ~\E b \in DOMAIN funcs[fname].blocks :
                          \E instr \in Range(funcs[fname].blocks[b].instructions) :
                              /\ instr.op \in {"ConstructResultOk", "ConstructResultErr"}
                              /\ instr.dest = term.value
    THEN RuntimeError ELSE ""

enforce_fnresult_returns_typeaware(func_infos, ssa_funcs, type_env) ==
    IF \E fname \in DOMAIN func_infos :
          /\ func_infos[fname].declared_can_throw
          /\ fname \in DOMAIN ssa_funcs.funcs
          /\ \E name \in DOMAIN ssa_funcs.funcs[fname].func.blocks :
                LET term == ssa_funcs.funcs[fname].func.blocks[name].terminator
                IN  /\ term.op = "Return"
                    /\ term.value # None
                    /\ ~is_fnresult(type_of_ssa_value(type_env, fname, term.value))
    THEN RuntimeError ELSE ""

run_throw_checks(funcs, summaries, declared_can_throw, ssa_funcs, type_env) ==
    LET func_infos == build_func_throw_info(summaries, declared_can_throw)
    IN  IF enforce_can_throw_invariants(func_infos) # "" THEN RuntimeError
        ELSE IF enforce_return_shape_for_can_throw(func_infos, funcs) # ""
        THEN RuntimeError
        ELSE IF enforce_fnresult_returns_for_can_throw(func_infos, funcs) # ""
        THEN RuntimeError
        ELSE IF /\ ssa_funcs.exists
                /\ type_env.exists
                /\ \E fname \in DOMAIN func_infos :
                      /\ fname \in DOMAIN funcs
                      /\ fname \in DOMAIN ssa_funcs.funcs
                      /\ enforce_fnresult_returns_typeaware(
                            [n \in {fname} |-> func_infos[fname]],
                            [exists |-> TRUE,
                             funcs |-> [n \in {fname} |-> ssa_funcs.funcs[fname]]],
                            type_env) # ""
        THEN RuntimeError
        ELSE Accepted

(***************************************************************************)
(* The arguments of run_throw_checks: one function f of one or two blocks, *)
(* whose values are v (an integer constant), r (a constructed result) and  *)
(* p (a parameter or forwarded call result).  Every function of funcs has  *)
(* a throw summary.                                                        *)
(***************************************************************************)

MaxThrowInstrs == 2

ThrowInstrs ==
    {ConstInt("v"), ConstructResultOk("r", "v"), ConstructResultErr("r", "v")}

ThrowTerminators == {NoTerminator} \cup {Return(x) : x \in {None, "v", "r", "p"}}

ThrowFuncs ==
    {MirFunc("entry" :> MirBlock(is, t)) :
        is \in SeqsUpTo(ThrowInstrs, MaxThrowInstrs), t \in ThrowTerminators}
      \cup {MirFunc(("entry" :> MirBlock(is, NoTerminator)) @@ ("b1" :> MirBlock(<<>>, t))) :
               is \in SeqsUpTo(ThrowInstrs, MaxThrowInstrs),
               t \in ThrowTerminators \ {NoTerminator}}

ThrowSummaries ==
    {ThrowSummary(c, e, m) :
        c \in BOOLEAN, e \in {{}, {"Evt"}}, m \in {{}, {<<"entry", 0>>}}}

\* The type environments handed in: v is an Int, r a FnResult, p either.
TypeEnvs ==
    {[exists |-> TRUE,
      types |-> (<<"f", "v">> :> IntType)
                  @@ (<<"f", "r">> :> new_fnresult(IntType, ErrorType))
                  @@ (<<"f", "p">> :> ty)] :
        ty \in {IntType, new_fnresult(IntType, ErrorType)}}

InitThrow ==
    /\ ToolsIdle
    /\ MirIdle
    /\ LaterIdle
    /\ \E funcs \in {Empty} \cup {"f" :> fn : fn \in ThrowFuncs} :
       \E summaries \in (IF funcs = Empty THEN {Empty} ELSE {})
                          \cup {"f" :> su : su \in ThrowSummaries} :
       \E declared_can_throw \in {Empty} \cup {"f" :> d : d \in BOOLEAN} :
       \E type_env \in {NoTypeEnv} \cup TypeEnvs :
          throwArgs = [funcs |-> funcs, summaries |-> summaries,
                       declared_can_throw |-> declared_can_throw,
                       ssa_funcs |-> IF ~type_env.exists THEN NoSsaFuncs
                                     ELSE [exists |-> TRUE,
                                           funcs |-> [n \in DOMAIN funcs |->
                                                         SsaFunc(funcs[n])]],
                       type_env |-> type_env]
    /\ throwVerdict = Pending

RunThrowChecks ==
    /\ throwVerdict = Pending
    /\ throwVerdict' = run_throw_checks(throwArgs.funcs, throwArgs.summaries,
                          throwArgs.declared_can_throw, throwArgs.ssa_funcs,
                          throwArgs.type_env)
    /\ UNCHANGED <<throwArgs, toolVars, mirVars, laterVars>>

NextThrow == RunThrowChecks

SpecThrow == InitThrow /\ [][NextThrow]_vars

(***************************************************************************)
(* Claims about the stage-4 throw checks                                   *)
(***************************************************************************)

Checked == throwVerdict # None /\ throwVerdict # Pending

\* f has a throw summary and is not declared can-throw: absent from the map,
\* or mapped to False.
NotDeclared ==
    /\ "f" \in DOMAIN throwArgs.summaries
    /\ Get(throwArgs.declared_can_throw, "f", FALSE) = FALSE

\* f is a function of funcs that is declared can-throw.
DeclaredFunc ==
    /\ "f" \in DOMAIN throwArgs.funcs
    /\ Get(throwArgs.declared_can_throw, "f", FALSE) = TRUE

Returns == {b.terminator : b \in {throwArgs.funcs["f"].blocks[n] :
                                     n \in DOMAIN throwArgs.funcs["f"].blocks}}
             \cap {Return(x) : x \in {None, "v", "r", "p"}}

Constructed ==
    {i.dest : i \in {j \in UNION {Range(throwArgs.funcs["f"].blocks[n].instructions) :
                                     n \in DOMAIN throwArgs.funcs["f"].blocks} :
                        j.op \in {"ConstructResultOk", "ConstructResultErr"}}}

\* C17 as stated: run_throw_checks raises for every function not declared
\* can-throw whose throw summary is non-empty: it constructs an Error, or it
\* has recorded exception types or may-fail sites.
C17_NonEmptySummaryRaises ==
    Checked /\ NotDeclared
      /\ (\/ throwArgs.summaries["f"].constructs_error
          \/ throwArgs.summaries["f"].exception_types # {}
          \/ throwArgs.summaries["f"].may_fail_sites # {})
      => throwVerdict = RuntimeError

\* C17, amended: run_throw_checks raises for every function not declared
\* can-throw (absent from the declared_can_throw map included) whose throw
\* summary says it constructs an Error, and for no other function that is
\* not declared can-throw, whatever exception types or may-fail sites its
\* summary records.
C17_ConstructsErrorRaises ==
    Checked /\ NotDeclared
      => (throwVerdict = RuntimeError <=> throwArgs.summaries["f"].constructs_error)

\* C17 witness: f is absent from the declared_can_throw map, its summary
\* says it constructs an Error, and run_throw_checks has raised.
C17_Witness ==
    /\ Checked
    /\ "f" \in DOMAIN throwArgs.summaries
    /\ "f" \notin DOMAIN throwArgs.declared_can_throw
    /\ throwArgs.summaries["f"].constructs_error
    /\ throwVerdict = RuntimeError

C19_TypeAwareSupersedes ==
    Checked /\ DeclaredFunc /\ throwArgs.ssa_funcs.exists /\ throwArgs.type_env.exists
      /\ (\A term \in Returns :
             /\ term.value # None
             /\ is_fnresult(type_of_ssa_value(throwArgs.type_env, "f", term.value)))
      => throwVerdict = Accepted

(***************************************************************************)
(* lang2/checker: Checker.check and Checker.build_type_env_from_ssa        *)
(* value_types maps <<function name, SSA value>> to a type.  Types are     *)
(* compared by structure.                                                  *)
(***************************************************************************)

FnResultReturn == "FnResult<Int, Error>"
IntReturn == "Int"

\* `"FnResult" in return_type`, over the return types written in signatures.
is_fnresult_return(return_type) == return_type = FnResultReturn

FnSignature(return_type, return_type_id) ==
    [return_type |-> return_type, return_type_id |-> return_type_id]

\* return_type_id before Checker.check has resolved the signature.
Unresolved == Type("NONE", "None", <<>>)

resolve_signature_types(sig) ==
    IF is_fnresult_return(sig.return_type) THEN new_fnresult(IntType, ErrorType)
    ELSE IF sig.return_type = IntReturn THEN IntType
    ELSE Type("SCALAR", sig.return_type, <<>>)

\* (ok, err) of the declared FnResult return type, <<>> for None.
fn_return_parts(signatures, fn_name) ==
    IF /\ fn_name \in DOMAIN signatures
       /\ signatures[fn_name].return_type_id # Unresolved
       /\ signatures[fn_name].return_type_id.kind = "FNRESULT"
       /\ Len(signatures[fn_name].return_type_id.param_types) = 2
    THEN signatures[fn_name].return_type_id.param_types
    ELSE <<>>

type_env_instr(value_types, fn_name, instr, parts) ==
    LET key == <<fn_name, instr.dest>>
    IN  IF instr.op = "ConstInt"
        THEN IF key \notin DOMAIN value_types THEN Put(value_types, key, IntType)
             ELSE value_types
        ELSE IF instr.op = "ConstructResultOk"
        THEN Put(value_types, key,
                 new_fnresult(Get(value_types, <<fn_name, instr.value>>, UnknownType),
                              IF parts # <<>> THEN parts[2] ELSE ErrorType))
        ELSE IF instr.op = "ConstructResultErr"
        THEN Put(value_types, key,
                 new_fnresult(IF parts # <<>> THEN parts[1] ELSE UnknownType,
                              Get(value_types, <<fn_name, instr.error>>, UnknownType)))
        ELSE value_types

RECURSIVE type_env_instrs(_, _, _, _, _)
type_env_instrs(value_types, fn_name, instructions, i, parts) ==
    IF i > Len(instructions) THEN value_types
    ELSE type_env_instrs(type_env_instr(value_types, fn_name, instructions[i], parts),
                         fn_name, instructions, i + 1, parts)

type_env_terminator(value_types, fn_name, term, parts) ==
    IF term.op = "Return" /\ term.value # None
    THEN Put(value_types, <<fn_name, term.value>>,
             IF parts # <<>> THEN new_fnresult(parts[1], parts[2])
             ELSE Get(value_types, <<fn_name, term.value>>, UnknownType))
    ELSE value_types

\* The blocks of a function in the order of its dict.
block_order(func) == SelectSeq(<<"entry", "b1">>, LAMBDA n : n \in DOMAIN func.blocks)

RECURSIVE type_env_blocks(_, _, _, _, _)
type_env_blocks(value_types, fn_name, func, names, parts) ==
    IF names = <<>> THEN value_types
    ELSE
    LET block == func.blocks[Head(names)]
        after == type_env_instrs(value_types, fn_name, block.instructions, 1, parts)
    IN  type_env_blocks(type_env_terminator(after, fn_name, block.terminator, parts),
                        fn_name, func, Tail(names), parts)

RECURSIVE type_env_funcs(_, _, _, _)
type_env_funcs(value_types, ssa_funcs, signatures, names) ==
    IF names = <<>> THEN value_types
    ELSE
    LET fn_name == Head(names)
        func == ssa_funcs[fn_name].func
    IN  type_env_funcs(
            type_env_blocks(value_types, fn_name, func, block_order(func),
                            fn_return_parts(signatures, fn_name)),
            ssa_funcs, signatures, Tail(names))

MaxRounds == 5

RECURSIVE type_env_rounds(_, _, _, _)
type_env_rounds(value_types, ssa_funcs, signatures, round) ==
    IF round > MaxRounds THEN value_types
    ELSE
    LET next == type_env_funcs(value_types, ssa_funcs, signatures,
                               SelectSeq(<<"f">>, LAMBDA n : n \in DOMAIN ssa_funcs))
    IN  IF next = value_types THEN value_types
        ELSE type_env_rounds(next, ssa_funcs, signatures, round + 1)

build_type_env_from_ssa(ssa_funcs, signatures) ==
    LET value_types == type_env_rounds(Empty, ssa_funcs, signatures, 1)
    IN  IF value_types = Empty THEN NoTypeEnv
        ELSE [exists |-> TRUE, types |-> value_types]

(***************************************************************************)
(* The driver's typed path for one function f: the checker resolves the    *)
(* signatures, builds the type environment from the SSA functions, and     *)
(* the type-aware return check runs on it.                                 *)
(***************************************************************************)

InitTyped ==
    /\ ToolsIdle
    /\ MirIdle
    /\ LaterIdle
    /\ \E fn \in ThrowFuncs : \E rt \in {FnResultReturn, IntReturn} :
          throwArgs = [stage |-> "lowered",
                       funcs |-> "f" :> fn,
                       ssa_funcs |-> [exists |-> TRUE, funcs |-> "f" :> SsaFunc(fn)],
                       signatures |-> "f" :> FnSignature(rt, Unresolved),
                       type_env |-> NoTypeEnv]
    /\ throwVerdict = Pending

\* Checker.check: resolves the return type of every signature.
Check ==
    /\ throwArgs.stage = "lowered"
    /\ throwArgs' = [throwArgs EXCEPT
                        !.stage = "checked",
                        !.signatures =
                            [n \in DOMAIN @ |->
                                FnSignature(@[n].return_type, resolve_signature_types(@[n]))]]
    /\ UNCHANGED <<throwVerdict, toolVars, mirVars, laterVars>>

BuildTypeEnv ==
    /\ throwArgs.stage \in {"lowered", "checked"}
    /\ throwArgs' = [throwArgs EXCEPT
                        !.stage = "typed",
                        !.type_env = build_type_env_from_ssa(throwArgs.ssa_funcs.funcs,
                                                             throwArgs.signatures)]
    /\ UNCHANGED <<throwVerdict, toolVars, mirVars, laterVars>>

\* FnInfo.declared_can_throw as Checker.check derives it from the signature.
DeclaredBySignature ==
    [n \in DOMAIN throwArgs.signatures |->
        [declared_can_throw |-> is_fnresult_return(throwArgs.signatures[n].return_type)]]

CheckTypeAware ==
    /\ throwArgs.stage = "typed"
    /\ throwArgs.type_env.exists
    /\ throwVerdict = Pending
    /\ \E res \in {enforce_fnresult_returns_typeaware(DeclaredBySignature,
                       throwArgs.ssa_funcs, throwArgs.type_env)} :
          throwVerdict' = IF res = "" THEN Accepted ELSE res
    /\ UNCHANGED <<throwArgs, toolVars, mirVars, laterVars>>

NextTyped == Check \/ BuildTypeEnv \/ CheckTypeAware

SpecTyped == InitTyped /\ [][NextTyped]_vars

\* C20: for a function whose signature declares a FnResult return and whose
\* Return carries a value defined by an integer constant, the type
\* environment built by build_type_env_from_ssa gives that value a
\* non-FnResult type, and enforce_fnresult_returns_typeaware reports the
\* violation.
C20_IntReturnReported ==
    /\ Checked
    /\ throwArgs.signatures["f"].return_type = FnResultReturn
    /\ Return("v") \in Returns
    /\ "v" \notin Constructed
    /\ ConstInt("v") \in UNION {Range(throwArgs.funcs["f"].blocks[n].instructions) :
                                   n \in DOMAIN throwArgs.funcs["f"].blocks}
    => /\ ~is_fnresult(type_of_ssa_value(throwArgs.type_env, "f", "v"))
       /\ throwVerdict = RuntimeError

(***************************************************************************)
(* lang2/stage4/ssa: MirToSSA.run                                          *)
(***************************************************************************)

NotImplementedError == "NotImplementedError"
AssertionError == "AssertionError"

StoreLocal(local, value) == [op |-> "StoreLocal", local |-> local, value |-> value]
LoadLocal(dest, local) == [op |-> "LoadLocal", dest |-> dest, local |-> local]
Goto(target) == [op |-> "Goto", target |-> target]
IfTerminator(cond, then_target, else_target) ==
    [op |-> "IfTerminator", cond |-> cond,
     then_target |-> then_target, else_target |-> else_target]

\* A stage2 MirFunc: entry, params and blocks are what the stages read.
Stage2Func(entry, params, blocks) == [entry |-> entry, params |-> params, blocks |-> blocks]

\* f"{local}_{idx}"
VersionName(local, idx) == <<local, "_", idx>>

Raised(exception) == [status |-> "raised", exception |-> exception]
NotRun == [status |-> "pending"]

\* The SsaFunc returned by MirToSSA.run.
SsaResult(func, local_versions, current_value) ==
    [status |-> "returned", func |-> func,
     local_versions |-> local_versions, current_value |-> current_value]

\* A scan that takes a load of a local that was never stored.
RECURSIVE ssa_scan_unguarded(_, _, _, _, _, _)
ssa_scan_unguarded(func, instructions, i, version, current_value, new_instrs) ==
    IF i > Len(instructions)
    THEN SsaResult([func EXCEPT !.blocks[func.entry].instructions = new_instrs],
                   version, current_value)
    ELSE
    LET instr == instructions[i]
    IN  IF instr.op = "StoreLocal"
        THEN LET idx == Get(version, instr.local, 0) + 1
             IN  ssa_scan_unguarded(func, instructions, i + 1,
                          Put(version, instr.local, idx),
                          Put(current_value, instr.local, VersionName(instr.local, idx)),
                          Append(new_instrs, instr))
        ELSE ssa_scan_unguarded(func, instructions, i + 1, version, current_value,
                      Append(new_instrs, instr))

\* The loop over block.instructions and the return after it.
RECURSIVE ssa_scan(_, _, _, _, _, _)
ssa_scan(func, instructions, i, version, current_value, new_instrs) ==
    IF i > Len(instructions)
    THEN SsaResult([func EXCEPT !.blocks[func.entry].instructions = new_instrs],
                   version, current_value)
    ELSE
    LET instr == instructions[i]
    IN  IF instr.op = "StoreLocal"
        THEN LET idx == Get(version, instr.local, 0) + 1
             IN  ssa_scan(func, instructions, i + 1,
                          Put(version, instr.local, idx),
                          Put(current_value, instr.local, VersionName(instr.local, idx)),
                          Append(new_instrs, instr))
        ELSE IF instr.op = "LoadLocal" /\ instr.local \notin DOMAIN version
        THEN Raised(RuntimeError)
        ELSE ssa_scan(func, instructions, i + 1, version, current_value,
                      Append(new_instrs, instr))

mir_to_ssa_run(func) ==
    IF Cardinality(DOMAIN func.blocks) # 1 THEN Raised(NotImplementedError)
    ELSE ssa_scan(func, func.blocks[func.entry].instructions, 1, Empty, Empty, <<>>)

(***************************************************************************)
(* The functions handed to the stages: straight-line functions over two    *)
(* locals, functions of two or three blocks with every choice of           *)
(* terminators among their blocks, and four-block functions around the     *)
(* if/else diamond.                                                        *)
(***************************************************************************)

MaxSsaInstrs == 3

SsaInstrs ==
    {StoreLocal(x, "v0") : x \in {"x", "y"}}
        \cup {LoadLocal("t0", x) : x \in {"x", "y"}}
        \cup {ConstInt("c1")}

StraightLineFuncs ==
    {Stage2Func("entry", <<>>, "entry" :> MirBlock(instrs, Return("t0"))) :
        instrs \in SeqsUpTo(SsaInstrs, MaxSsaInstrs)}

StageBlockNames == <<"entry", "b1", "b2">>

StageTerminators(names) ==
    {NoTerminator, Return(None), Return("c1")}
        \cup {Goto(t) : t \in names}
        \cup {IfTerminator("c1", t, e) : t \in names, e \in names}

BranchingFuncs ==
    UNION {
        LET names == {StageBlockNames[i] : i \in 1..k}
        IN  {Stage2Func("entry", <<>>,
                 [n \in names |->
                     MirBlock(IF n = "entry" THEN <<ConstInt("c1")>> ELSE <<>>, terms[n])]) :
               terms \in [names -> StageTerminators(names)]}
        : k \in 2..Len(StageBlockNames)}

\* entry branches to b1 and b2, which go on to any block or return; b3
\* returns.  The if/else diamond is the one where both go on to b3.
DiamondFuncs ==
    LET arms == {Return("c1")} \cup {Goto(t) : t \in {"entry", "b1", "b2", "b3"}}
    IN  {Stage2Func("entry", <<>>,
             [n \in {"entry", "b1", "b2", "b3"} |->
                 MirBlock(IF n = "entry" THEN <<ConstInt("c1")>> ELSE <<>>,
                          IF n = "entry" THEN IfTerminator("c1", "b1", "b2")
                          ELSE IF n = "b3" THEN Return("c1")
                          ELSE terms[n])]) :
           terms \in [{"b1", "b2"} -> arms]}

StageFuncs == StraightLineFuncs \cup BranchingFuncs \cup DiamondFuncs

InitSsa ==
    /\ ToolsIdle
    /\ MirIdle
    /\ ThrowIdle
    /\ OthersIdle({"stage"})
    /\ stageFn \in StageFuncs
    /\ stageResult = NotRun

RunMirToSSA ==
    /\ stageResult = NotRun
    /\ stageResult' = mir_to_ssa_run(stageFn)
    /\ UNCHANGED <<stageFn, toolVars, mirVars, throwVars>>
    /\ OthersUnchanged({"stage"})

NextSsa == RunMirToSSA

SpecSsa == InitSsa /\ [][NextSsa]_vars

(***************************************************************************)
(* Claims about MirToSSA.run                                               *)
(***************************************************************************)

\* The targets of a terminator that are blocks of the function.
successors(func, name) ==
    LET term == func.blocks[name].terminator
    IN  (IF term.op = "Goto" THEN {term.target}
         ELSE IF term.op = "IfTerminator" THEN {term.then_target, term.else_target}
         ELSE {}) \cap DOMAIN func.blocks

RECURSIVE ReachableFrom(_, _, _)
ReachableFrom(func, frontier, seen) ==
    IF frontier \subseteq seen THEN seen
    ELSE ReachableFrom(func, UNION {successors(func, n) : n \in frontier} ,
                       seen \cup frontier)

\* Some block that control can reach from entry lies on a cycle of blocks.
HasBackedge(func) ==
    \E n \in ReachableFrom(func, {func.entry}, {}) :
        n \in ReachableFrom(func, successors(func, n), {})

MultiBlock(func) == Cardinality(DOMAIN func.blocks) > 1

\* C21: MirToSSA.run accepts a multi-block function whose CFG is acyclic
\* and rejects only the multi-block functions whose CFG has a backedge.
C21_AcyclicMultiBlockAccepted ==
    stageResult # NotRun /\ MultiBlock(stageFn)
    => (stageResult.status = "raised" <=> HasBackedge(stageFn))

StoresTo(instructions, x) ==
    {i \in DOMAIN instructions :
        instructions[i].op = "StoreLocal" /\ instructions[i].local = x}

\* Some LoadLocal of a local comes before every StoreLocal to that local.
LoadBeforeStore(instructions) ==
    \E i \in DOMAIN instructions :
        /\ instructions[i].op = "LoadLocal"
        /\ \A j \in StoresTo(instructions, instructions[i].local) : i < j

StoredLocals(instructions) ==
    {instructions[i].local : i \in {j \in DOMAIN instructions :
                                       instructions[j].op = "StoreLocal"}}

\* C22: for a single-block function, MirToSSA.run raises RuntimeError
\* exactly when some LoadLocal comes before every StoreLocal to its local;
\* otherwise it returns the same function with its instructions unchanged,
\* local_versions[x] the number of StoreLocal instructions to x, and
\* current_value[x] the name x_<that number>.
C22_SingleBlockVersions ==
    stageResult # NotRun /\ ~MultiBlock(stageFn)
    => LET instructions == stageFn.blocks[stageFn.entry].instructions
       IN  IF LoadBeforeStore(instructions)
           THEN stageResult = Raised(RuntimeError)
           ELSE /\ stageResult.status = "returned"
                /\ stageResult.func = stageFn
                /\ DOMAIN stageResult.local_versions = StoredLocals(instructions)
                /\ DOMAIN stageResult.current_value = StoredLocals(instructions)
                /\ \A x \in StoredLocals(instructions) :
                      LET n == Cardinality(StoresTo(instructions, x))
                      IN  /\ stageResult.local_versions[x] = n
                          /\ stageResult.current_value[x] = VersionName(x, n)

\* A straight-line function with two stores to x and a load of x has run.
C22_Witness ==
    /\ stageResult # NotRun
    /\ ~MultiBlock(stageFn)
    /\ stageFn.blocks["entry"].instructions =
           <<StoreLocal("x", "v0"), StoreLocal("x", "v0"), LoadLocal("t0", "x")>>
    /\ stageResult.status = "returned"

(***************************************************************************)
(* lang2/codegen/llvm: lower_ssa_func_to_llvm                              *)
(* The emitted text is a sequence of lines; a line is the tuple of its     *)
(* words.                                                                  *)
(***************************************************************************)

FNRESULT_INT_ERROR == "%FnResult_Int_Error"

FnInfo(declared_can_throw, return_type_id) ==
    [declared_can_throw |-> declared_can_throw, return_type_id |-> return_type_id]

\* func.blocks.values(), in the order the blocks were inserted.
stage_block_order(func) ==
    SelectSeq(<<"entry", "b1", "b2", "b3">>, LAMBDA n : n \in DOMAIN func.blocks)

\* "%" + mir_id
map_value(mir_id) == <<"%", mir_id>>

\* "" when no block names itself as a successor.
assert_acyclic(func) ==
    IF \E name \in DOMAIN func.blocks :
          LET term == func.blocks[name].terminator
          IN  \/ term.op = "Goto" /\ term.target = name
              \/ /\ term.op = "IfTerminator"
                 /\ (term.then_target = name \/ term.else_target = name)
    THEN NotImplementedError
    ELSE ""

return_llvm_type(fn_info) ==
    IF fn_info.declared_can_throw THEN [raised |-> "", ty |-> FNRESULT_INT_ERROR]
    ELSE IF fn_info.return_type_id = Unresolved
    THEN [raised |-> NotImplementedError, ty |-> ""]
    ELSE [raised |-> "", ty |-> "i64"]

emit_header(func, fn_info) ==
    LET ret == return_llvm_type(fn_info)
    IN  IF ret.raised # "" THEN [raised |-> ret.raised, lines |-> <<>>]
        ELSE IF func.params # <<>> THEN [raised |-> NotImplementedError, lines |-> <<>>]
        ELSE [raised |-> "", lines |-> << <<"define", ret.ty, "f">> >>]

RECURSIVE lower_instrs(_, _, _)
lower_instrs(instructions, i, lines) ==
    IF i > Len(instructions) THEN [raised |-> "", lines |-> lines]
    ELSE IF instructions[i].op = "ConstInt"
    THEN lower_instrs(instructions, i + 1,
                      Append(lines, <<map_value(instructions[i].dest), "=", "add", "i64">>))
    ELSE [raised |-> NotImplementedError, lines |-> lines]

lower_term(term, fn_info, lines) ==
    IF term.op = "Goto"
    THEN [raised |-> "", lines |-> Append(lines, <<"br", "label", map_value(term.target)>>)]
    ELSE IF term.op = "IfTerminator"
    THEN [raised |-> "",
          lines |-> Append(lines, <<"br", "i1", map_value(term.cond),
                                    "label", map_value(term.then_target),
                                    "label", map_value(term.else_target)>>)]
    ELSE IF term.op = "Return"
    THEN IF term.value = None THEN [raised |-> AssertionError, lines |-> lines]
         ELSE [raised |-> "",
               lines |-> Append(lines,
                   <<"ret", IF fn_info.declared_can_throw THEN FNRESULT_INT_ERROR ELSE "i64",
                     map_value(term.value)>>)]
    ELSE [raised |-> NotImplementedError, lines |-> lines]

emit_block(func, fn_info, name, lines) ==
    LET block == func.blocks[name]
        body == lower_instrs(block.instructions, 1, Append(lines, <<name, ":">>))
    IN  IF body.raised # "" THEN body
        ELSE lower_term(block.terminator, fn_info, body.lines)

RECURSIVE emit_blocks(_, _, _, _)
emit_blocks(func, fn_info, names, lines) ==
    IF names = <<>> THEN [raised |-> "", lines |-> lines]
    ELSE LET out == emit_block(func, fn_info, Head(names), lines)
         IN  IF out.raised # "" THEN out
             ELSE emit_blocks(func, fn_info, Tail(names), out.lines)

\* _FuncBuilder.lower
lower_ssa_func_to_llvm(func, fn_info) ==
    IF assert_acyclic(func) # "" THEN Raised(assert_acyclic(func))
    ELSE
    LET header == emit_header(func, fn_info)
    IN  IF header.raised # "" THEN Raised(header.raised)
        ELSE
        LET out == emit_blocks(func, fn_info, stage_block_order(func), header.lines)
        IN  IF out.raised # "" THEN Raised(out.raised)
            ELSE [status |-> "returned", ir |-> Append(out.lines, <<"}">>)]

FnInfos == {FnInfo(d, t) : d \in BOOLEAN, t \in {Unresolved, IntType}}

LowerToLlvm ==
    /\ stageResult = NotRun
    /\ \E fn_info \in FnInfos :
          stageResult' = lower_ssa_func_to_llvm(stageFn, fn_info)
    /\ UNCHANGED <<stageFn, toolVars, mirVars, throwVars>>
    /\ OthersUnchanged({"stage"})

NextLlvm == LowerToLlvm

SpecLlvm == InitSsa /\ [][NextLlvm]_vars

\* C23: lower_ssa_func_to_llvm raises a compile-time error, and emits no
\* IR, for every function whose CFG contains a cycle of blocks, not only a
\* block that branches to itself.
C23_LoopsRejected ==
    stageResult # NotRun /\ HasBackedge(stageFn) => stageResult.status = "raised"

(***************************************************************************)
(* lang/checker: Checker.check, as far as thrown events go.  Every         *)
(* expression is taken to be well typed; a statement is a raise with an    *)
(* optional event domain, or a call of a function by name.                 *)
(***************************************************************************)

CheckError == "CheckError"

RaiseStmt(domain) == [stmt |-> "RaiseStmt", domain |-> domain]
CallStmt(ident) == [stmt |-> "ExprStmt", ident |-> ident]

\* fn.thrown_domains: None (declared = FALSE) or a list of domains.
NoDomains == [declared |-> FALSE, domains |-> {}]
Domains(domains) == [declared |-> TRUE, domains |-> domains]

FunctionDef(name, thrown_domains, body) ==
    [name |-> name, thrown_domains |-> thrown_domains, body |-> body]

\* function_infos after _register_functions: name -> signature.effects.
RECURSIVE register_functions(_, _, _)
register_functions(functions, i, infos) ==
    IF i > Len(functions) THEN [raised |-> "", infos |-> infos]
    ELSE IF functions[i].name \in DOMAIN infos
    THEN [raised |-> CheckError, infos |-> infos]
    ELSE register_functions(functions, i + 1,
                            Put(infos, functions[i].name, functions[i].thrown_domains))

\* _check_stmt over a body: the effects collected in ctx.effects.
RECURSIVE check_stmts(_, _, _, _)
check_stmts(infos, body, i, effects) ==
    IF i > Len(body) THEN [raised |-> "", effects |-> effects]
    ELSE
    LET stmt == body[i]
    IN  IF stmt.stmt = "RaiseStmt"
        THEN check_stmts(infos, body, i + 1,
                         IF stmt.domain # None THEN effects \cup {stmt.domain} ELSE effects)
        ELSE IF stmt.ident \notin DOMAIN infos
        THEN [raised |-> CheckError, effects |-> effects]
        ELSE check_stmts(infos, body, i + 1,
                         IF infos[stmt.ident].declared
                         THEN effects \cup infos[stmt.ident].domains
                         ELSE effects)

check_function(infos, fn) ==
    LET ctx == check_stmts(infos, fn.body, 1, {})
        allowed_effects == infos[fn.name]
    IN  IF ctx.raised # "" THEN ctx.raised
        ELSE IF allowed_effects.declared /\ ~(ctx.effects \subseteq allowed_effects.domains)
        THEN CheckError
        ELSE ""

RECURSIVE check_functions(_, _, _)
check_functions(infos, functions, i) ==
    IF i > Len(functions) THEN ""
    ELSE IF check_function(infos, functions[i]) # "" THEN check_function(infos, functions[i])
    ELSE check_functions(infos, functions, i + 1)

\* Checker.check with no builtin functions and no module-level statements.
checker_check(functions) ==
    LET registered == register_functions(functions, 1, Empty)
    IN  IF registered.raised # "" THEN registered.raised
        ELSE check_functions(registered.infos, functions, 1)

MaxStmts == 2

EventDomains == {"A", "B"}
FunctionNames == <<"f", "g", "h">>

Stmts(names) ==
    {RaiseStmt(d) : d \in EventDomains \cup {None}} \cup {CallStmt(n) : n \in names}

ThrownDomains == {NoDomains} \cup {Domains(ds) : ds \in SUBSET EventDomains}

\* f and g with any declaration and body; h, when present, declares
\* nothing and raises at most once.
Programs ==
    LET fg == {FunctionDef(FunctionNames[i], td, body) :
                  i \in 1..2, td \in ThrownDomains,
                  body \in SeqsUpTo(Stmts({"f", "g", "h"}), MaxStmts)}
        f == {fn \in fg : fn.name = "f"}
        g == {fn \in fg : fn.name = "g"}
        h == {FunctionDef("h", NoDomains, body) :
                  body \in {<<>>} \cup {<<RaiseStmt(d)>> : d \in EventDomains}}
    IN  {<<a>> : a \in f} \cup {<<a, c>> : a \in {x \in f : Len(x.body) <= 1}, c \in h}
            \cup {<<a, b, c>> : a \in {x \in f : Len(x.body) <= 1},
                                b \in {x \in g : Len(x.body) <= 1 /\ x.thrown_domains = NoDomains},
                                c \in h}

InitCheck ==
    /\ ToolsIdle
    /\ MirIdle
    /\ ThrowIdle
    /\ OthersIdle({"check"})
    /\ program \in Programs
    /\ checkResult = Pending

CheckProgram ==
    /\ checkResult = Pending
    /\ \E res \in {checker_check(program)} :
          checkResult' = IF res = "" THEN Accepted ELSE res
    /\ UNCHANGED <<program, toolVars, mirVars, throwVars>>
    /\ OthersUnchanged({"check"})

NextCheck == CheckProgram

SpecCheck == InitCheck /\ [][NextCheck]_vars

\* The function of the program with this name.
FunctionNamed(name) == CHOOSE fn \in Range(program) : fn.name = name

Callees(fn) ==
    {fn.body[i].ident : i \in {j \in DOMAIN fn.body : fn.body[j].stmt = "ExprStmt"}}

OwnEvents(fn) ==
    {fn.body[i].domain : i \in {j \in DOMAIN fn.body : fn.body[j].stmt = "RaiseStmt"}}
        \ {None}

Defined == {fn.name : fn \in Range(program)}

RECURSIVE CalledFrom(_, _)
CalledFrom(frontier, seen) ==
    IF frontier \subseteq seen THEN seen
    ELSE CalledFrom(UNION {Callees(FunctionNamed(n)) \cap Defined : n \in frontier},
                    seen \cup frontier)

\* The events a function may throw: those of its own raise statements and
\* those of every function it calls, transitively.
MayThrow(fn) == UNION {OwnEvents(FunctionNamed(n)) : n \in CalledFrom({fn.name}, {})}

\* C24: for every function with a declared thrown-event set, checking fails
\* unless the set is a superset of the events the function may throw, its
\* own and those of every function it calls, transitively, callees without
\* a declared set included.
C24_DeclaredEventsCoverThrown ==
    checkResult = Accepted
    => \A fn \in Range(program) :
          fn.thrown_domains.declared => MayThrow(fn) \subseteq fn.thrown_domains.domains

(***************************************************************************)
(* lang2/driftc/packages/provider_v0: _validate_package_interfaces         *)
(* A module is its interface and payload JSON objects; the tables and      *)
(* lists are of the JSON types the code asks for, their members are any    *)
(* JSON value.                                                             *)
(***************************************************************************)

ValueError == "ValueError"

\* JSON values of a signature flag: true, false, a string, or key absent.
JTrue == "true"
JFalse == "false"
JText == "\"no\""

\* bool(d.get(key, False))
py_bool(v) == v \in {JTrue, JText}

SigData(is_exported_entrypoint, is_method) ==
    [is_exported_entrypoint |-> is_exported_entrypoint, is_method |-> is_method]

\* f"{mid}::{v}"
Sym(mid, v) == <<mid, "::", v>>

\* "__impl" in sym, over the names used here.
has_impl(sym) == sym[1] \in {"m__impl"} \/ sym[3] \in {"f__impl"}

\* sorted(a) == sorted(b)
same_sorted(a, b) ==
    /\ Range(a) = Range(b)
    /\ \A x \in Range(a) :
          Cardinality({i \in DOMAIN a : a[i] = x}) = Cardinality({i \in DOMAIN b : b[i] = x})

has_duplicates(list) == Cardinality(Range(list)) # Len(list)

\* The two checks of an exported value that read its flags.
value_flags(payload_sd) ==
    IF ~py_bool(payload_sd.is_exported_entrypoint) THEN ValueError
    ELSE IF py_bool(payload_sd.is_method) THEN ValueError
    ELSE ""

\* The body of `for v in values`.
validate_value(mid, v, iface_sigs, payload_sigs) ==
    LET sym == Sym(mid, v)
    IN  IF has_impl(sym) THEN ValueError
        ELSE IF sym \notin DOMAIN iface_sigs THEN ValueError
        ELSE IF sym \notin DOMAIN payload_sigs THEN ValueError
        ELSE IF iface_sigs[sym] # payload_sigs[sym] THEN ValueError
        ELSE value_flags(payload_sigs[sym])

\* The body of `for mid, mod in pkg.modules_by_id.items()`.
validate_module(mid, mod) ==
    LET values == mod.interface.exports.values
        types == mod.interface.exports.types
        iface_sigs == mod.interface.signatures
        payload_sigs == mod.payload.signatures
    IN  IF mod.interface.format # "drift-module-interface" THEN ValueError
        ELSE IF mod.interface.version # 0 THEN ValueError
        ELSE IF mod.interface.module_id # mid THEN ValueError
        ELSE IF has_duplicates(values) THEN ValueError
        ELSE IF has_duplicates(types) THEN ValueError
        ELSE IF \/ ~same_sorted(mod.payload.exports.values, values)
                \/ ~same_sorted(mod.payload.exports.types, types)
        THEN ValueError
        ELSE IF \E i \in DOMAIN values :
                   validate_value(mid, values[i], iface_sigs, payload_sigs) # ""
        THEN ValueError
        ELSE IF DOMAIN iface_sigs \ {Sym(mid, values[i]) : i \in DOMAIN values} # {}
        THEN ValueError
        ELSE ""

validate_package_interfaces(modules_by_id) ==
    IF \E mid \in DOMAIN modules_by_id : validate_module(mid, modules_by_id[mid]) # ""
    THEN ValueError
    ELSE ""

MaxExports == 2

Interface(format, version, module_id, values, types, signatures) ==
    [format |-> format, version |-> version, module_id |-> module_id,
     exports |-> [values |-> values, types |-> types], signatures |-> signatures]

Payload(values, types, signatures) ==
    [exports |-> [values |-> values, types |-> types], signatures |-> signatures]

Module(interface, payload) == [interface |-> interface, payload |-> payload]

ExportedEntry == SigData(JTrue, None)

SigDatas ==
    {ExportedEntry, SigData(JTrue, JFalse), SigData(JTrue, JTrue),
     SigData(JText, None), SigData(JFalse, None), SigData(None, None),
     SigData(JTrue, JText)}

\* An entry (<<sd>>) or none (<<>>) for one symbol.
SigTable(sym, entry) == IF entry = <<>> THEN Empty ELSE sym :> entry[1]

\* Interface and payload signature tables of module m: any entry or none
\* for f in the interface, the same, a good one or none in the payload;
\* a good entry or none for g in both.
SigTablePairs ==
    UNION {
        {[interface |-> SigTable(Sym("m", "f"), isd) @@ SigTable(Sym("m", "g"), gsd),
          payload |-> SigTable(Sym("m", "f"), psd) @@ SigTable(Sym("m", "g"), gsd)] :
            psd \in {isd, <<ExportedEntry>>, <<>>}, gsd \in {<<ExportedEntry>>, <<>>}}
        : isd \in {<<sd>> : sd \in SigDatas} \cup {<<>>}}

Reverse(list) == [i \in DOMAIN list |-> list[Len(list) + 1 - i]]

ModulesM ==
    UNION {
        {Module(Interface("drift-module-interface", 0, "m", values, types, sigs.interface),
                Payload(pvalues, ptypes, sigs.payload)) :
            pvalues \in {values, Reverse(values), <<>>},
            ptypes \in {types, <<>>},
            sigs \in SigTablePairs}
        : values \in SeqsUpTo({"f", "g", "f__impl"}, MaxExports),
          types \in SeqsUpTo({"T"}, MaxExports)}

\* Module m with a wrong interface header.
BadHeaders ==
    {Module(Interface(format, version, module_id, <<>>, <<>>, Empty),
            Payload(<<>>, <<>>, Empty)) :
        format \in {"drift-module-interface", "other"}, version \in {0, 1},
        module_id \in {"m", "n"}}

\* A second module n: one exported value, well formed or not.
ModulesN ==
    {Module(Interface("drift-module-interface", 0, "n", <<"f">>, <<>>,
                      Sym("n", "f") :> sd),
            Payload(<<"f">>, <<>>, Sym("n", "f") :> sd)) :
        sd \in {ExportedEntry, SigData(JFalse, None)}}

Packages ==
    {"m" :> m : m \in ModulesM \cup BadHeaders}
        \cup {("m" :> m) @@ ("n" :> n) :
                 m \in {x \in ModulesM : Len(x.interface.exports.values) = 0}
                       \cup {Module(Interface("drift-module-interface", 0, "m", <<"f">>, <<>>,
                                              Sym("m", "f") :> ExportedEntry),
                                    Payload(<<"f">>, <<>>, Sym("m", "f") :> ExportedEntry))},
                 n \in ModulesN}

InitPkg ==
    /\ ToolsIdle
    /\ MirIdle
    /\ ThrowIdle
    /\ OthersIdle({"pkg"})
    /\ loadedPkg \in Packages
    /\ pkgResult = Pending

ValidatePackageInterfaces ==
    /\ pkgResult = Pending
    /\ \E res \in {validate_package_interfaces(loadedPkg)} :
          pkgResult' = IF res = "" THEN Accepted ELSE res
    /\ UNCHANGED <<loadedPkg, toolVars, mirVars, throwVars>>
    /\ OthersUnchanged({"pkg"})

NextPkg == ValidatePackageInterfaces

SpecPkg == InitPkg /\ [][NextPkg]_vars

\* What the spec asks of one module.
WellFormed(mid, mod) ==
    LET values == mod.interface.exports.values
    IN  /\ ~has_duplicates(values)
        /\ ~has_duplicates(mod.interface.exports.types)
        /\ \A i \in DOMAIN values :
              LET sym == Sym(mid, values[i])
              IN  /\ sym \in DOMAIN mod.interface.signatures
                  /\ sym \in DOMAIN mod.payload.signatures
                  /\ mod.interface.signatures[sym] = mod.payload.signatures[sym]
                  /\ mod.payload.signatures[sym].is_exported_entrypoint = JTrue
                  /\ mod.payload.signatures[sym].is_method \in {JFalse, None}
                  /\ ~has_impl(sym)

\* C25: _validate_package_interfaces accepts a package only if, for every
\* module, exports.values and exports.types have no duplicates and every
\* exported value has an interface signature equal to its payload
\* signature, with is_exported_entrypoint true, is_method false and no
\* "__impl" in its symbol.
C25_AcceptedPackagesWellFormed ==
    pkgResult = Accepted
    => \A mid \in DOMAIN loadedPkg : WellFormed(mid, loadedPkg[mid])

(***************************************************************************)
(* lang2/drift/sign and the `sign` command of lang2/drift/cli              *)
(* A seed file holds a valid seed or not; a signature and a public key     *)
(* are the terms Ed25519 makes of the seed and the message.                *)
(***************************************************************************)

b64_encode(raw) == <<"b64", raw>>

ed25519_sign_from_seed(seed32, message) ==
    [sig_raw |-> <<"sig", seed32, message>>, pub_raw |-> <<"pub", seed32>>]

\* compute_ed25519_kid: the digest of the raw public key.
compute_ed25519_kid(pub_raw) == <<"kid", pub_raw>>

KeyFiles == {"s1.key", "s2.key", "bad.key"}

\* _load_seed32
load_seed32(path) ==
    IF path = "bad.key" THEN [raised |-> ValueError, seed |-> ""]
    ELSE [raised |-> "", seed |-> path]

NoSidecar == [exists |-> FALSE, package_sha256 |-> "", signatures |-> <<>>]

SigEntry(kid, sig, pubkey) == [algo |-> "ed25519", kid |-> kid, sig |-> sig, pubkey |-> pubkey]

\* The entry sign_package_v0 makes for these package bytes and this seed.
sign_entry(pkg_bytes, seed32, include_pubkey) ==
    LET signed == ed25519_sign_from_seed(seed32, pkg_bytes)
    IN  SigEntry(compute_ed25519_kid(signed.pub_raw), b64_encode(signed.sig_raw),
                 IF include_pubkey THEN <<b64_encode(signed.pub_raw)>> ELSE <<>>)

\* sign_package_v0: the sidecar at out_path afterwards, and the exception.
sign_package_v0(files, key_seed_path, include_pubkey) ==
    LET loaded == load_seed32(key_seed_path)
    IN  IF loaded.raised # "" THEN [raised |-> loaded.raised, sidecar |-> files.sidecar]
        ELSE [raised |-> "",
              sidecar |-> [exists |-> TRUE,
                           package_sha256 |-> Sha256Of(files.package),
                           signatures |-> <<sign_entry(files.package, loaded.seed,
                                                       include_pubkey)>>]]

\* The fields of the SignOptions dataclass.
SignOptionsFields == {"package_path", "key_seed_path", "out_path", "include_pubkey"}

\* main, cmd == "sign": SignOptions is built from these keyword arguments
\* before the try block that calls sign_package_v0.
cli_sign(files, key, add_signature, include_pubkey) ==
    LET keywords == {"package_path", "key_seed_path", "out_path",
                     "add_signature", "include_pubkey"}
    IN  IF ~(keywords \subseteq SignOptionsFields)
        THEN [raised |-> TypeError, sidecar |-> files.sidecar]
        ELSE sign_package_v0(files, key, include_pubkey)

PackageBytes == {1, 2}

Signed(via, key, add_signature, before, raised) ==
    [cmd |-> "sign", via |-> via, key |-> key, add_signature |-> add_signature,
     before |-> before, raised |-> raised]

InitSign ==
    /\ ToolsIdle
    /\ MirIdle
    /\ ThrowIdle
    /\ OthersIdle({"sign"})
    /\ \E bytes \in PackageBytes : signFiles = [package |-> bytes, sidecar |-> NoSidecar]
    /\ signLast = [cmd |-> "init"]

\* sign_package_v0 called with options that name no add_signature.
SignPackage ==
    /\ \E key \in KeyFiles, include_pubkey \in BOOLEAN :
          \E res \in {sign_package_v0(signFiles, key, include_pubkey)} :
             /\ signFiles' = [signFiles EXCEPT !.sidecar = res.sidecar]
             /\ signLast' = Signed("api", key, FALSE, signFiles, res.raised)
    /\ UNCHANGED <<toolVars, mirVars, throwVars>>
    /\ OthersUnchanged({"sign"})

\* drift sign <package> --key <key> [--add-signature] [--include-pubkey]
DriftSign ==
    /\ \E key \in KeyFiles, add_signature \in BOOLEAN, include_pubkey \in BOOLEAN :
          \E res \in {cli_sign(signFiles, key, add_signature, include_pubkey)} :
             /\ signFiles' = [signFiles EXCEPT !.sidecar = res.sidecar]
             /\ signLast' = Signed("cli", key, add_signature, signFiles, res.raised)
    /\ UNCHANGED <<toolVars, mirVars, throwVars>>
    /\ OthersUnchanged({"sign"})

\* The package is rebuilt: its bytes change, the sidecar stays.
RebuildPackage ==
    /\ \E bytes \in PackageBytes \ {signFiles.package} :
          signFiles' = [signFiles EXCEPT !.package = bytes]
    /\ signLast' = [cmd |-> "rebuild"]
    /\ UNCHANGED <<toolVars, mirVars, throwVars>>
    /\ OthersUnchanged({"sign"})

NextSign == SignPackage \/ DriftSign \/ RebuildPackage

SpecSign == InitSign /\ [][NextSign]_vars

\* C26: signing with add-signature appends the new entry to an existing
\* sidecar, keeping the entries already there, only if the sidecar's
\* package_sha256 is the SHA-256 of the package bytes; if the sidecar is
\* missing or its package_sha256 differs, signing fails and the sidecar is
\* unchanged.
C26_AddSignatureAppends ==
    signLast.cmd = "sign" /\ signLast.add_signature /\ signLast.key # "bad.key"
    => LET before == signLast.before.sidecar
       IN  IF before.exists /\ before.package_sha256 = Sha256Of(signLast.before.package)
           THEN /\ signLast.raised = ""
                /\ signFiles.sidecar.package_sha256 = before.package_sha256
                /\ Len(signFiles.sidecar.signatures) = Len(before.signatures) + 1
                /\ SubSeq(signFiles.sidecar.signatures, 1, Len(before.signatures))
                       = before.signatures
           ELSE /\ signLast.raised # ""
                /\ signFiles.sidecar = before

(***************************************************************************)
(* lang2/drift/trust: add_key_to_trust_store                               *)
(* The empty string is the empty tuple, so that it can be compared with    *)
(* the kids, which are tuples.                                             *)
(***************************************************************************)

b64_decode(text) == text[2]

PubKeys == {<<"pub", "s1.key">>, <<"pub", "s2.key">>}

\* A public key of 16 bytes.
ShortKey == <<"pub16">>

NoKid == [given |-> FALSE, kid |-> <<>>]
GivenKid(kid) == [given |-> TRUE, kid |-> kid]

TrustAddKeyOptions(namespace, pubkey_b64, kid) ==
    [namespace |-> namespace, pubkey_b64 |-> pubkey_b64, kid |-> kid]

\* _load_or_init_trust_store for a missing file.
EmptyTrustStore == [keys |-> Empty, namespaces |-> Empty]

\* add_key_to_trust_store: the exception, and the store as written.
add_key_to_trust_store(obj, opts) ==
    LET pub_raw == b64_decode(opts.pubkey_b64)
        kid == IF opts.kid.given /\ opts.kid.kid # <<>> THEN opts.kid.kid
               ELSE compute_ed25519_kid(pub_raw)
        keys == IF kid \in DOMAIN obj.keys THEN obj.keys
                ELSE Put(obj.keys, kid, [algo |-> "ed25519", pubkey |-> b64_encode(pub_raw)])
        allowed == Get(obj.namespaces, opts.namespace, <<>>)
        namespaces == IF opts.namespace \notin DOMAIN obj.namespaces
                      THEN Put(obj.namespaces, opts.namespace, <<kid>>)
                      ELSE IF kid \notin Range(allowed)
                      THEN Put(obj.namespaces, opts.namespace, Append(allowed, kid))
                      ELSE obj.namespaces
    IN  IF pub_raw = ShortKey THEN [raised |-> ValueError, obj |-> obj]
        ELSE IF opts.kid.given /\ kid # opts.kid.kid THEN [raised |-> ValueError, obj |-> obj]
        ELSE [raised |-> "", obj |-> [keys |-> keys, namespaces |-> namespaces]]

Namespaces == {"acme", "lib"}

KidArgs ==
    {NoKid, GivenKid(<<>>)} \cup {GivenKid(compute_ed25519_kid(pk)) : pk \in PubKeys}

InitTrust ==
    /\ ToolsIdle
    /\ MirIdle
    /\ ThrowIdle
    /\ OthersIdle({"trust"})
    /\ trustStore = EmptyTrustStore
    /\ trustLast = [cmd |-> "init"]

\* drift trust add-key --namespace <ns> --pubkey <b64> [--kid <kid>]
AddKey ==
    /\ \E namespace \in Namespaces, pk \in PubKeys \cup {ShortKey}, kid \in KidArgs :
          LET opts == TrustAddKeyOptions(namespace, b64_encode(pk), kid)
          IN  \E res \in {add_key_to_trust_store(trustStore, opts)} :
                 /\ trustStore' = res.obj
                 /\ trustLast' = [cmd |-> "add-key", opts |-> opts, raised |-> res.raised]
    /\ UNCHANGED <<toolVars, mirVars, throwVars>>
    /\ OthersUnchanged({"trust"})

NextTrust == AddKey

SpecTrust == InitTrust /\ [][NextTrust]_vars

\* C27: add_key_to_trust_store fails when the kid supplied differs from the
\* kid derived from the public key supplied, so every kid in the keys table
\* of the trust store is the kid derived from its entry's public key.
C27_KidsAreDerived ==
    /\ (/\ trustLast.cmd = "add-key"
        /\ trustLast.opts.kid.given
        /\ b64_decode(trustLast.opts.pubkey_b64) # ShortKey
        /\ trustLast.opts.kid.kid
               # compute_ed25519_kid(b64_decode(trustLast.opts.pubkey_b64)))
       => trustLast.raised # ""
    /\ \A kid \in DOMAIN trustStore.keys :
          kid = compute_ed25519_kid(b64_decode(trustStore.keys[kid].pubkey))

(***************************************************************************)
(* lang2/drift/index_v0.save_index and lock_v0.save_lock, with a reader    *)
(* Path.write_bytes opens the file for writing, which truncates it, then   *)
(* writes the bytes, which the system may take in any number of pieces,    *)
(* then closes it.  A file's content is a sequence of byte chunks.         *)
(***************************************************************************)

\* canonical_json_bytes of an object with these keys in its packages map.
canonical_json_bytes(package_ids) == <<"{">> \o SortedStrings(package_ids) \o <<"}">>

OutPaths == {"index.json", "drift.lock.json"}
OutObjects == SUBSET {"lib", "lib-x"}

Closed == [pc |-> "closed", path |-> "", pending |-> <<>>]

\* open(path, "wb"): the file is empty from here on.
open_wb(files, path) == [files EXCEPT ![path] = <<>>]

\* One write(2) that takes the first n chunks.
write_some(files, path, pending, n) ==
    [files EXCEPT ![path] = @ \o SubSeq(pending, 1, n)]

InitSave ==
    /\ ToolsIdle
    /\ MirIdle
    /\ ThrowIdle
    /\ OthersIdle({"save"})
    /\ \E objs \in [OutPaths -> OutObjects] :
          LET content == [p \in OutPaths |-> canonical_json_bytes(objs[p])]
          IN  outFiles = [files |-> content, before |-> content, after |-> content,
                          writer |-> Closed]
    /\ readSeen = [cmd |-> "init"]

\* save_index(path, index_obj) / save_lock(path, entries) up to the open
\* inside path.write_bytes.
SaveOpen ==
    /\ outFiles.writer.pc = "closed"
    /\ \E path \in OutPaths, obj \in OutObjects :
          outFiles' = [files |-> open_wb(outFiles.files, path),
                       before |-> [outFiles.after EXCEPT ![path] = outFiles.files[path]],
                       after |-> [outFiles.after EXCEPT ![path] = canonical_json_bytes(obj)],
                       writer |-> [pc |-> "open", path |-> path,
                                   pending |-> canonical_json_bytes(obj)]]
    /\ UNCHANGED <<readSeen, toolVars, mirVars, throwVars>>
    /\ OthersUnchanged({"save"})

SaveWrite ==
    /\ outFiles.writer.pc = "open"
    /\ outFiles.writer.pending # <<>>
    /\ \E n \in 1..Len(outFiles.writer.pending) :
          outFiles' = [outFiles EXCEPT
                          !.files = write_some(@, outFiles.writer.path,
                                               outFiles.writer.pending, n),
                          !.writer.pending = SubSeq(@, n + 1, Len(@))]
    /\ UNCHANGED <<readSeen, toolVars, mirVars, throwVars>>
    /\ OthersUnchanged({"save"})

SaveClose ==
    /\ outFiles.writer.pc = "open"
    /\ outFiles.writer.pending = <<>>
    /\ outFiles' = [outFiles EXCEPT !.writer = Closed]
    /\ UNCHANGED <<readSeen, toolVars, mirVars, throwVars>>
    /\ OthersUnchanged({"save"})

\* Another process reads one of the files (load_index, load_lock).
ReadFile ==
    /\ \E path \in OutPaths :
          readSeen' = [cmd |-> "read", path |-> path, content |-> outFiles.files[path],
                       before |-> outFiles.before[path], after |-> outFiles.after[path]]
    /\ UNCHANGED <<outFiles, toolVars, mirVars, throwVars>>
    /\ OthersUnchanged({"save"})

NextSave == SaveOpen \/ SaveWrite \/ SaveClose \/ ReadFile

SpecSave == InitSave /\ [][NextSave]_vars

\* C28: a process that reads index.json or the lockfile while save_index
\* or save_lock runs sees the complete previous content or the complete
\* new content, never an empty or partly written file.
C28_ReadersSeeWholeFiles ==
    readSeen.cmd = "read" => readSeen.content \in {readSeen.before, readSeen.after}

(***************************************************************************)
(* Claims about the dataflow of the MIR verifier and about the functions  *)
(* it accepts.                                                             *)
(***************************************************************************)

\* verify_function reaches _dataflow_defs_types: the entry block exists, every
\* block has a terminator and _compute_incoming_args raised no KeyError.
DataflowRan(fn) ==
    /\ fn.entry \in DOMAIN fn.blocks
    /\ \A name \in DOMAIN fn.blocks : fn.blocks[name].terminator.op # "None"
    /\ compute_incoming_args(fn, compute_defs_and_types(fn)).err = ""

\* The names in_state gives as defined at the entry of each block.
InDefs(fn) ==
    dataflow_defs_types(fn,
        compute_incoming_args(fn, compute_defs_and_types(fn)).incoming)

\* The argument lists of the edges that enter the block.
IncomingArgs(fn, name) ==
    {e.args : e \in {ed \in UNION {Range(edges_of(fn.blocks[src].terminator)) :
                                      src \in DOMAIN fn.blocks} :
                        ed.target = name}}

\* C29: _dataflow_defs_types merges over predecessor edges by intersection:
\* the names it reports as defined at a block's entry are, besides the
\* block's own parameters, only names that occur in the argument list of
\* every incoming edge.
C29_MergeIsIntersection ==
    Verified /\ DataflowRan(mirFn) =>
        \A name \in DOMAIN mirFn.blocks :
            \A x \in InDefs(mirFn)[name] \ {p.name : p \in Range(mirFn.blocks[name].params)} :
                \A args \in IncomingArgs(mirFn, name) : x \in Range(args)

\* Some name is defined twice on some path from entry.
Redefines(fn) ==
    \E path \in Paths(fn) :
        LET tr == Trace(fn, path)
        IN  \E i \in DOMAIN tr : \E j \in 1..(i - 1) :
                tr[j].defs \cap tr[i].defs # {}

\* Some edge passes a value that its source block does not define.
EdgePassesUndefined(fn) ==
    \E name \in DOMAIN fn.blocks :
        \E e \in Range(edges_of(fn.blocks[name].terminator)) :
            \E i \in DOMAIN e.args :
                e.args[i] \notin compute_defs_and_types(fn)[name].defined

\* All blocks terminated and reachable from entry, every operand defined and
\* neither moved nor dropped, every edge to an existing block and passing
\* values of its source block that match the parameters of the target.
WellFormedMir(fn) ==
    /\ fn.entry \in DOMAIN fn.blocks
    /\ \A name \in DOMAIN fn.blocks : fn.blocks[name].terminator.op # "None"
    /\ \A name \in DOMAIN fn.blocks :
          \A e \in Range(edges_of(fn.blocks[name].terminator)) :
              e.target \in DOMAIN fn.blocks
    /\ UNION {Range(path) : path \in Paths(fn)} = DOMAIN fn.blocks
    /\ ~UsesUndefined(fn)
    /\ ~UsedAfterMoveOrDrop(fn)
    /\ ~Redefines(fn)
    /\ ~EdgePassesUndefined(fn)
    /\ ~EdgeMismatch(fn)

\* C30: verify_function returns without raising for every well-formed MIR
\* function: all blocks terminated and reachable from entry, every operand
\* defined and neither moved nor dropped, and every Br/CondBr edge passing
\* values defined in the source block that match the target's parameters in
\* number and type.
C30_WellFormedAccepted ==
    Verified /\ WellFormedMir(mirFn) => mirVerdict = Accepted

====
